---- MODULE Spec2Model ----
(***************************************************************************)
(* Model of the options-alerts runtime: the durable TTL cache              *)
(* (services/core/cache_manager.py), the rate limiter built on it          *)
(* (services/scanner/scanner_utils.py), the buy-scan work pipeline         *)
(* (services/scanner/buy_scanner.py) and the thread manager                *)
(* (services/threading/thread_manager.py).                                 *)
(*                                                                         *)
(* Each component has its own specification over the module's variables:   *)
(* SpecCache, SpecRate, SpecPipe, SpecMgr.  A component's actions leave    *)
(* the other components' variables unchanged.                              *)
(***************************************************************************)
EXTENDS Integers, Sequences, FiniteSets, TLC

\* ------------------------------------------------------------------------
\* Bounds of the model
\* ------------------------------------------------------------------------
MaxTicks == 2
MaxTtlMinutes == 2

\* ------------------------------------------------------------------------
\* Program constants
\* ------------------------------------------------------------------------
DefaultTtlDays == 30
SecondsPerMinute == 60
MinutesPerHour == 60
HoursPerDay == 24

VARIABLES
    \* --- cache instance (CacheManager) ---
    now,        \* wall clock, in seconds
    ticks,      \* number of clock advances so far (bounds the run)
    ttl_cfg,    \* [days, hours, minutes], each [some |-> BOOLEAN, v |-> Nat]
    cache,      \* self._cache : key -> entry (NoEntry when absent)
    file,       \* the file at self.filepath
    boot,       \* position of the process: "down", "load_dump", "up"
    pc,         \* per thread: position inside get / clear / _save_cache
    reg,        \* per thread: the key argument of the call in progress
    snap,       \* per thread: cache_copy of the _save_cache in progress
    tmp,        \* per thread: the NamedTemporaryFile of the _save_cache in progress
    ret,        \* the last value a cache call returned, and when it was called
    recent,     \* the last add() that no later mutation of the map followed
    lastAddT,   \* per key: the time of the last add(key), -1 when none
    saved,      \* the snapshot the last completed os.replace put in place
    crash,      \* what the last kill interrupted: "none", "mid_save", "other"
    \* --- rate limiter on the RateLimitCache instance ---
    marks,      \* per provider: the last MarkLimited, [at, r] (at = -1 when none)
    gate,       \* the last pre-check made since the provider was last marked
    \* --- thread manager (ThreadManager, ThreadWrapper) ---
    tod,        \* time of day on the manager's clock
    wrappers,   \* every ThreadWrapper created so far, in creation order
    threads,    \* self._threads : task name -> index into wrappers (0 when absent)
    order,      \* the keys of self._threads, in insertion order
    mstop,      \* self._manager_stop_event
    main,       \* the calling thread: its position inside stop_all
    watcher,    \* the watcher thread: its position inside _watch_loop
    mtime,      \* per watched file: its modification time
    seen,       \* self._file_timestamps
    regs,       \* self._registered_modules: module -> last_mtime (-1: not registered)
    lastReload, \* the module reloads of the restart the watcher performed last
    dupAdd,     \* an add_thread was given a name that was in the table already
    \* --- one run of the fetch / analysis pipeline (run_buy_scan) ---
    subjects,   \* filtered_tickers, the input of the run
    fetch_q,    \* fetch_q: the items queued, oldest first
    fetch_unf,  \* fetch_q.unfinished_tasks
    result_q,   \* result_q: the items queued, oldest first
    result_unf, \* result_q.unfinished_tasks
    sem,        \* the free slots of api_semaphore
    api,        \* per fetch worker: [pc, item]
    ana,        \* per analysis worker: [pc, item, n]
    runner,     \* the thread inside run_buy_scan: [pc, i, cleared]
    stop_event, \* the stop_event handed to the run
    clock,      \* poll intervals elapsed
    cancelAt,   \* the clock when stop_event was set (-1: not set)
    analysed,   \* per subject: how many times analyze_ticker recorded its outcome
    failed,     \* a fetch or an analysis failed or was requeued
    requeues,   \* how many times a subject was put back on fetch_q
    total_iterated,
    ignored,    \* the subjects the run added to the ignore cache
    failures,   \* the subjects of which a fetch or an analysis failed or was requeued
    resume,     \* the listing a run resumes in: ticker_keys, last_seen, start_index
    \* --- the request pool (ApiWorker) ---
    apiw        \* [queue, last_call, stop_event, time, thr, calls]

cacheVars == <<now, ticks, ttl_cfg, cache, file, boot, pc, reg, snap, tmp, ret,
               recent, lastAddT, saved, crash>>

rateVars == <<marks, gate>>

mgrVars == <<tod, wrappers, threads, order, mstop, main, watcher, mtime, seen, regs,
            lastReload, dupAdd>>

pipeVars == <<subjects, fetch_q, fetch_unf, result_q, result_unf, sem, api, ana, runner,
             stop_event, clock, cancelAt, analysed, failed, requeues, total_iterated,
             ignored, failures, resume>>

\* variables of the components other than the cache and the rate limiter
sysVars == <<mgrVars, pipeVars, apiw>>

vars == <<now, ticks, ttl_cfg, cache, file, boot, pc, reg, snap, tmp, ret,
          recent, lastAddT, saved, crash, marks, gate,
          tod, wrappers, threads, order, mstop, main, watcher, mtime, seen, regs,
          lastReload, dupAdd,
          subjects, fetch_q, fetch_unf, result_q, result_unf, sem, api, ana, runner,
          stop_event, clock, cancelAt, analysed, failed, requeues, total_iterated,
          ignored, failures, resume, apiw>>

\* ------------------------------------------------------------------------
\* Values stored in a cache
\* ------------------------------------------------------------------------
Keys == {"k1", "k2"}
Thr == {"t1", "t2"}

NoneVal == [kind |-> "none", s |-> "", n |-> 0, items |-> {}]
Scalar(x) == [kind |-> "scalar", s |-> x, n |-> 0, items |-> {}]
IntVal(i) == [kind |-> "int", s |-> "", n |-> i, items |-> {}]
DictVal(items) == [kind |-> "dict", s |-> "", n |-> 0, items |-> items]
PlainKey(h) == [tuple |-> FALSE, parts |-> <<h>>]
TupleKey(parts) == [tuple |-> TRUE, parts |-> parts]

\* eval_result as analyze_ticker builds it: a dict keyed by tuples
EvalResult ==
    DictVal({[key |-> TupleKey(<<"PrimaryStrategy", "Result">>), val |-> Scalar("a")]})
\* a dict with plain keys, as the news cache stores
PlainDict ==
    DictVal({[key |-> PlainKey("avg_sentiment"), val |-> Scalar("a")]})

Values == {Scalar("a"), NoneVal, EvalResult, PlainDict}

\* CacheManager._convert_nested_tuples: a dict's tuple keys become nested dicts
RECURSIVE Nest(_)
Nest(paths) ==
    { [key |-> PlainKey(h),
       val |-> IF \E p \in paths : p.parts = <<h>>
               THEN (CHOOSE p \in paths : p.parts = <<h>>).val
               ELSE DictVal(Nest({ [parts |-> Tail(p.parts), val |-> p.val] :
                                   p \in {q \in paths : Head(q.parts) = h} }))]
      : h \in {Head(p.parts) : p \in paths} }

ConvertNestedTuples(value) ==
    IF value.kind # "dict" THEN value
    ELSE DictVal(Nest({ [parts |-> e.key.parts, val |-> e.val] : e \in value.items }))

\* ------------------------------------------------------------------------
\* Entries, TTL
\* ------------------------------------------------------------------------
NoEntry == [Value |-> NoneVal, Timestamp |-> -1]
EmptyMap == [k \in Keys |-> NoEntry]

Unset == [some |-> FALSE, v |-> 0]
Given(n) == [some |-> TRUE, v |-> n]

TtlConfigs ==
    { [days |-> Unset, hours |-> Unset, minutes |-> Given(m)] : m \in {1, MaxTtlMinutes} }
    \cup { [days |-> Unset, hours |-> Unset, minutes |-> Unset] }

OrZero(c) == IF c.some THEN c.v ELSE 0

\* a variant that takes the largest component instead of adding them up
TtlOfMax(cfg) ==
    LET d0 == OrZero(cfg.days)
        h == OrZero(cfg.hours)
        m == OrZero(cfg.minutes)
        d == IF d0 = 0 /\ h = 0 /\ m = 0 THEN DefaultTtlDays ELSE d0
        parts == {d * HoursPerDay * MinutesPerHour * SecondsPerMinute,
                  h * MinutesPerHour * SecondsPerMinute,
                  m * SecondsPerMinute}
    IN  CHOOSE x \in parts : \A y \in parts : y <= x

\* the timedelta CacheManager.is_expired builds, in seconds
TtlOf(cfg) ==
    LET d0 == OrZero(cfg.days)
        h == OrZero(cfg.hours)
        m == OrZero(cfg.minutes)
        d == IF d0 = 0 /\ h = 0 /\ m = 0 THEN DefaultTtlDays ELSE d0
    IN  (d * HoursPerDay * MinutesPerHour + h * MinutesPerHour + m) * SecondsPerMinute

Ttl == TtlOf(ttl_cfg)

\* CacheManager.is_expired(timestamp) evaluated at time t
IsExpired(timestamp, t) == t - timestamp > Ttl

\* ------------------------------------------------------------------------
\* The persisted file
\* ------------------------------------------------------------------------
IsoFormat(t) == [iso |-> t]
FromIsoFormat(s) == s.iso
NoRow == [Value |-> NoneVal, Timestamp |-> IsoFormat(-1)]
NoRows == [k \in Keys |-> NoRow]

\* the dict _save_cache serializes from cache_copy
Serializable(copy) ==
    [k \in Keys |-> IF copy[k] = NoEntry THEN NoRow
                    ELSE [Value |-> copy[k].Value,
                          Timestamp |-> IsoFormat(copy[k].Timestamp)]]

MissingFile == [kind |-> "missing", data |-> NoRows]
EmptyFile == [kind |-> "empty", data |-> NoRows]        \* zero bytes
PartialFile(rows) == [kind |-> "partial", data |-> rows] \* a truncated dump
CompleteFile(rows) == [kind |-> "complete", data |-> rows]
NoTmp == [kind |-> "none", data |-> NoRows]

Idle == [t \in Thr |-> "idle"]
NoRet == [op |-> "none", key |-> "", val |-> NoneVal, hit |-> FALSE, at |-> 0]
NoReg == [key |-> "", at |-> 0]
NotSaved == [done |-> FALSE, data |-> NoRows]
NoRecent == [key |-> "", val |-> NoneVal, at |-> -1]

NoMark == [at |-> -1, r |-> 0]
NoGate == [caller |-> "none", provider |-> "", at |-> 0, limited |-> FALSE]

\* the rate limiter is not in use
RateIdle ==
    /\ marks = [p \in Keys |-> NoMark]
    /\ gate = NoGate

\* ------------------------------------------------------------------------
\* Thread manager: tasks, modules, watched files, and its state right after
\* ThreadManager.__init__
\* ------------------------------------------------------------------------
Tasks == {"A", "B"}
Modules == {"mA", "mB", "m1", "m2"}
Paths == {"fS", "fM"}
PathOrder == <<"fS", "fM">>

\* wrapper._target_func.__module__
TargetModule(name) == IF name = "A" THEN "mA" ELSE "mB"

\* wrapper._reload_files: both scanners list scanner_utils.py
ReloadFiles(name) == {"fS"}

\* wrapper._parent: both tasks are registered with the same parent; the field is
\* stored by ThreadWrapper.__init__, handed on to the new wrapper of a reload, and
\* read nowhere else
ParentOf(name) == "group"

\* the modules handed to register_module, and the file of each
RegModules == {"m1"}
ModuleFile(m) == "fM"

NoWindow == [some |-> FALSE, start |-> 0, end |-> 0]
Window == [some |-> TRUE, start |-> 1, end |-> 2]
NoSchedule == [win |-> NoWindow, cool |-> 0]
Windowed == [win |-> Window, cool |-> 1]
Schedules == {NoSchedule, Windowed}

\* how often each module was reloaded while one file change was handled
NoneReloaded == [m \in Modules |-> 0]
NoReload == [task |-> "", deps |-> <<>>, own |-> "", plain |-> {}, log |-> <<>>,
             event |-> NoneReloaded]
MainIdle == [pc |-> "idle", i |-> 0]
NoWatcher == [pc |-> "none", pending |-> <<>>, todo |-> <<>>, phase |-> "", new |-> 0,
              initial_scan_done |-> FALSE]

MgrIdle ==
    /\ tod = 0
    /\ wrappers = <<>>
    /\ threads = [n \in Tasks |-> 0]
    /\ order = <<>>
    /\ mstop = FALSE
    /\ main = MainIdle
    /\ watcher = NoWatcher
    /\ mtime = [f \in Paths |-> 0]
    /\ seen = [f \in Paths |-> 0]
    /\ regs = [m \in RegModules |-> -1]
    /\ lastReload = NoReload
    /\ dupAdd = FALSE

\* ------------------------------------------------------------------------
\* The pipeline of run_buy_scan: its workers, and its state before a run
\* ------------------------------------------------------------------------
Tickers == {"T1", "T2"}
ApiWorkers == {"f1", "f2"}
AnalysisWorkers == {"a1", "a2"}
WorkerOrder == <<"f1", "f2", "a1", "a2">>

\* scanner_cfg["api_semaphore"]: fewer slots than there are fetch workers
ApiSemaphoreLimit == Cardinality(ApiWorkers) - 1

NoTicker == ""
Sentinel == "None"
NoItem == [ticker |-> NoTicker, options |-> FALSE]
NotStarted == [pc |-> "new", item |-> NoItem, n |-> 0]

\* no listing has been read yet
NoResume == [ticker_keys |-> <<>>, last_seen |-> NoTicker, start_index |-> 0,
             remaining_tickers |-> <<>>]

\* ApiWorker.__init__: the queue is empty, _last_call = 0.0 while time.time() is
\* far beyond the minimum interval, every thread of the pool is at the top of
\* _worker
MinInterval == 2    \* min_interval, in ticks of the pool's clock
PoolThreads == {"p1", "p2"}
PoolTop == [pc |-> "top", until |-> 0]
PoolIdle ==
    [queue |-> 0, last_call |-> 0, stop_event |-> FALSE, time |-> MinInterval,
     thr |-> [t \in PoolThreads |-> PoolTop], calls |-> <<>>]

PipeIdle ==
    /\ subjects = <<>>
    /\ fetch_q = <<>>
    /\ fetch_unf = 0
    /\ result_q = <<>>
    /\ result_unf = 0
    /\ sem = 0
    /\ api = [w \in ApiWorkers |-> NotStarted]
    /\ ana = [w \in AnalysisWorkers |-> NotStarted]
    /\ runner = [pc |-> "idle", i |-> 0, cleared |-> FALSE]
    /\ stop_event = FALSE
    /\ clock = 0
    /\ cancelAt = -1
    /\ analysed = [t \in Tickers |-> 0]
    /\ failed = FALSE
    /\ requeues = 0
    /\ total_iterated = 0
    /\ ignored = {}
    /\ failures = {}
    /\ resume = NoResume
    /\ apiw = PoolIdle

\* ------------------------------------------------------------------------
\* Init: the process is about to construct the cache; no file exists yet
\* ------------------------------------------------------------------------
\* everything but the TTL setting the instance is constructed with
CacheStart ==
    /\ now = 0
    /\ ticks = 0
    /\ cache = EmptyMap
    /\ file = MissingFile
    /\ boot = "down"
    /\ pc = Idle
    /\ reg = [t \in Thr |-> NoReg]
    /\ snap = [t \in Thr |-> EmptyMap]
    /\ tmp = [t \in Thr |-> NoTmp]
    /\ ret = NoRet
    /\ recent = NoRecent
    /\ lastAddT = [k \in Keys |-> -1]
    /\ saved = NotSaved
    /\ crash = "none"
    /\ RateIdle
    /\ MgrIdle
    /\ PipeIdle

CacheInit == ttl_cfg \in TtlConfigs /\ CacheStart

\* variables of the other components
nonCacheVars == <<rateVars, sysVars>>

\* ------------------------------------------------------------------------
\* CacheManager.add
\* ------------------------------------------------------------------------
AddEntryNoStamp(c, key, value, t) ==
    [c EXCEPT ![key] = [Value |-> ConvertNestedTuples(value),
                        Timestamp |-> IF c[key] = NoEntry THEN t ELSE c[key].Timestamp]]

AddEntry(c, key, value, t) ==
    [c EXCEPT ![key] = [Value |-> ConvertNestedTuples(value), Timestamp |-> t]]

AddCore(t, key, value) ==
    /\ boot = "up"
    /\ cache' = AddEntry(cache, key, value, now)
    /\ recent' = [key |-> key, val |-> value, at |-> now]
    /\ lastAddT' = [lastAddT EXCEPT ![key] = now]
    /\ ret' = [NoRet EXCEPT !.op = "add", !.key = key, !.at = now]
    /\ UNCHANGED <<now, ticks, ttl_cfg, file, boot, reg, snap, tmp, saved, crash>>

Add(t, key, value) ==
    /\ pc[t] = "idle"
    /\ AddCore(t, key, value)
    /\ UNCHANGED pc
    /\ UNCHANGED nonCacheVars

\* ------------------------------------------------------------------------
\* CacheManager.is_cached: the whole body runs under self._lock
\* ------------------------------------------------------------------------
IsCachedResult(c, key, t) ==
    c[key] # NoEntry /\ ~IsExpired(c[key].Timestamp, t)

\* a buggy variant: an expired entry is reported missing but left in the map
IsCachedMapKeep(c, key, t) == c

IsCachedMap(c, key, t) ==
    IF c[key] # NoEntry /\ IsExpired(c[key].Timestamp, t)
    THEN [c EXCEPT ![key] = NoEntry]
    ELSE c

\* an add(k, v) is "recent" until a later step other than a read replaces or
\* removes entries; a read leaves it so, and evicts only what is_expired tells it to
RecentAfter(c) == IF c = cache THEN recent ELSE NoRecent

IsCached(t, key) ==
    /\ boot = "up" /\ pc[t] = "idle"
    /\ cache' = IsCachedMap(cache, key, now)
    /\ recent' = recent
    /\ ret' = [op |-> "is_cached", key |-> key, val |-> NoneVal,
                hit |-> IsCachedResult(cache, key, now), at |-> now]
    /\ UNCHANGED <<now, ticks, ttl_cfg, file, boot, pc, reg, snap, tmp, lastAddT, saved, crash>>
    /\ UNCHANGED nonCacheVars

\* ------------------------------------------------------------------------
\* CacheManager.get: is_cached(key) under the lock, then an unlocked read
\* ------------------------------------------------------------------------
GetCheck(t, key) ==
    /\ boot = "up" /\ pc[t] = "idle"
    /\ cache' = IsCachedMap(cache, key, now)
    /\ recent' = recent
    /\ IF IsCachedResult(cache, key, now)
       THEN /\ pc' = [pc EXCEPT ![t] = "get_read"]
            /\ reg' = [reg EXCEPT ![t] = [key |-> key, at |-> now]]
            /\ ret' = [NoRet EXCEPT !.op = "get_pending", !.key = key, !.at = now]
       ELSE /\ ret' = [op |-> "get", key |-> key, val |-> NoneVal, hit |-> FALSE,
                        at |-> now]
            /\ UNCHANGED <<pc, reg>>
    /\ UNCHANGED <<now, ticks, ttl_cfg, file, boot, snap, tmp, lastAddT, saved, crash>>
    /\ UNCHANGED nonCacheVars

\* return self._cache[key]["Value"]; a key deleted since the check raises KeyError
GetRead(t) ==
    /\ boot = "up" /\ pc[t] = "get_read"
    /\ pc' = [pc EXCEPT ![t] = "idle"]
    /\ ret' = IF cache[reg[t].key] = NoEntry
               THEN [NoRet EXCEPT !.op = "get_keyerror", !.key = reg[t].key,
                                  !.at = reg[t].at]
               ELSE [op |-> "get", key |-> reg[t].key, val |-> cache[reg[t].key].Value,
                     hit |-> (cache[reg[t].key].Value # NoneVal), at |-> reg[t].at]
    /\ reg' = [reg EXCEPT ![t] = NoReg]
    /\ UNCHANGED <<now, ticks, ttl_cfg, cache, file, boot, snap, tmp, recent,
                   lastAddT, saved, crash>>
    /\ UNCHANGED nonCacheVars

\* ------------------------------------------------------------------------
\* CacheManager.clear: empties the map under the lock, then _save_cache()
\* ------------------------------------------------------------------------
Clear(t) ==
    /\ boot = "up" /\ pc[t] = "idle"
    /\ cache' = EmptyMap
    /\ recent' = NoRecent
    /\ pc' = [pc EXCEPT ![t] = "save_copy"]
    /\ ret' = [NoRet EXCEPT !.op = "clear", !.at = now]
    /\ UNCHANGED <<now, ticks, ttl_cfg, file, boot, reg, snap, tmp, lastAddT, saved, crash>>
    /\ UNCHANGED nonCacheVars

\* ------------------------------------------------------------------------
\* CacheManager._save_cache, one step per statement that touches shared state
\* ------------------------------------------------------------------------
\* autosave_loop or the shutdown hook calls _save_cache()
SaveBegin(t) ==
    /\ boot = "up" /\ pc[t] = "idle"
    /\ pc' = [pc EXCEPT ![t] = "save_copy"]
    /\ UNCHANGED <<now, ticks, ttl_cfg, cache, file, boot, reg, snap, tmp, ret, recent,
                   lastAddT, saved, crash>>
    /\ UNCHANGED nonCacheVars

\* with self._lock: cache_copy = dict(self._cache)
SaveCopy(t) ==
    /\ boot = "up" /\ pc[t] = "save_copy"
    /\ snap' = [snap EXCEPT ![t] = cache]
    /\ pc' = [pc EXCEPT ![t] = "save_open"]
    /\ UNCHANGED <<now, ticks, ttl_cfg, cache, file, boot, reg, tmp, ret, recent,
                   lastAddT, saved, crash>>
    /\ UNCHANGED nonCacheVars

\* a buggy variant: the dump is written to self.filepath itself
DumpTargetInPlace(t) == "file"

\* where the dump is written: a NamedTemporaryFile in the file's directory
DumpTarget(t) == "tmp"

\* tempfile.NamedTemporaryFile("w", dir=dir_name, delete=False)
SaveOpen(t) ==
    /\ boot = "up" /\ pc[t] = "save_open"
    /\ tmp' = [tmp EXCEPT ![t] = EmptyFile]
    /\ file' = IF DumpTarget(t) = "tmp" THEN file ELSE EmptyFile
    /\ pc' = [pc EXCEPT ![t] = "save_dump"]
    /\ UNCHANGED <<now, ticks, ttl_cfg, cache, boot, reg, snap, ret, recent,
                   lastAddT, saved, crash>>
    /\ UNCHANGED nonCacheVars

\* json.dump writes the document piece by piece
SaveDumpPart(t) ==
    /\ boot = "up" /\ pc[t] = "save_dump" /\ tmp[t].kind = "empty"
    /\ tmp' = [tmp EXCEPT ![t] = PartialFile(Serializable(snap[t]))]
    /\ file' = IF DumpTarget(t) = "tmp" THEN file ELSE tmp'[t]
    /\ UNCHANGED <<now, ticks, ttl_cfg, cache, boot, pc, reg, snap, ret, recent,
                   lastAddT, saved, crash>>
    /\ UNCHANGED nonCacheVars

\* the dump is complete; tmp.flush(); os.fsync(); the with-block closes the file
SaveDumpDone(t) ==
    /\ boot = "up" /\ pc[t] = "save_dump"
    /\ tmp' = [tmp EXCEPT ![t] = CompleteFile(Serializable(snap[t]))]
    /\ file' = IF DumpTarget(t) = "tmp" THEN file ELSE tmp'[t]
    /\ pc' = [pc EXCEPT ![t] = "save_replace"]
    /\ UNCHANGED <<now, ticks, ttl_cfg, cache, boot, reg, snap, ret, recent,
                   lastAddT, saved, crash>>
    /\ UNCHANGED nonCacheVars

\* os.replace(tmp.name, self.filepath)
SaveReplace(t) ==
    /\ boot = "up" /\ pc[t] = "save_replace"
    /\ file' = tmp[t]
    /\ saved' = [done |-> TRUE, data |-> tmp[t].data]
    /\ tmp' = [tmp EXCEPT ![t] = NoTmp]
    /\ snap' = [snap EXCEPT ![t] = EmptyMap]
    /\ pc' = [pc EXCEPT ![t] = "idle"]
    /\ UNCHANGED <<now, ticks, ttl_cfg, cache, boot, reg, ret, recent, lastAddT, crash>>
    /\ UNCHANGED nonCacheVars

\* except Exception: logged; the temporary file is left behind, never renamed
SaveFail(t) ==
    /\ boot = "up" /\ pc[t] \in {"save_open", "save_dump", "save_replace"}
    /\ tmp' = [tmp EXCEPT ![t] = NoTmp]
    /\ snap' = [snap EXCEPT ![t] = EmptyMap]
    /\ pc' = [pc EXCEPT ![t] = "idle"]
    /\ UNCHANGED <<now, ticks, ttl_cfg, cache, file, boot, reg, ret, recent, lastAddT,
                   saved, crash>>
    /\ UNCHANGED nonCacheVars

\* ------------------------------------------------------------------------
\* Process death and restart; CacheManager._load_cache
\* ------------------------------------------------------------------------
\* the process is killed at an arbitrary point; memory is lost, the disk stays
Kill ==
    /\ boot \in {"up", "load_dump"}
    /\ boot' = "down"
    /\ cache' = EmptyMap
    /\ pc' = Idle
    /\ snap' = [t \in Thr |-> EmptyMap]
    /\ tmp' = [t \in Thr |-> NoTmp]
    /\ ret' = NoRet
    /\ recent' = NoRecent
    /\ reg' = [t \in Thr |-> NoReg]
    /\ crash' = IF \E t \in Thr : pc[t] = "save_replace" THEN "mid_save" ELSE "other"
    /\ UNCHANGED <<now, ticks, ttl_cfg, file, lastAddT, saved>>
    /\ UNCHANGED nonCacheVars

\* a buggy variant: every row is kept and stamped with the time of the load
LoadedMapRestamped(c, rows, t) ==
    [k \in Keys |-> IF rows[k] # NoRow
                    THEN [Value |-> rows[k].Value, Timestamp |-> t]
                    ELSE c[k]]

\* the rows of a parsed file that _load_cache keeps at time t, merged into c
LoadedMap(c, rows, t) ==
    [k \in Keys |-> IF rows[k] # NoRow /\ ~IsExpired(FromIsoFormat(rows[k].Timestamp), t)
                    THEN [Value |-> rows[k].Value,
                          Timestamp |-> FromIsoFormat(rows[k].Timestamp)]
                    ELSE c[k]]

\* a file this program did not write: rows in the sequence of the file, some of them
\* without a "Timestamp", some with one that datetime.fromisoformat rejects
NoStamp == [none |-> TRUE]
BadStamp == [text |-> "yesterday"]
CanParse(s) == "iso" \in DOMAIN s
ForeignFile(rows, keys) == [kind |-> "foreign", data |-> rows, keys |-> keys]

\* for key, data in raw.items(): the loop of _load_cache at time t, up to the
\* first row that raises (the except clause logs, the rows put so far stay)
RECURSIVE LoadRows(_, _, _, _)
LoadRows(c, rows, keys, t) ==
    IF keys = <<>> THEN c
    ELSE LET key == Head(keys)
             row == rows[key]
         IN  IF row.Timestamp = NoStamp THEN LoadRows(c, rows, Tail(keys), t)
             ELSE IF ~CanParse(row.Timestamp) THEN c
             ELSE IF IsExpired(FromIsoFormat(row.Timestamp), t)
                  THEN LoadRows(c, rows, Tail(keys), t)
             ELSE LoadRows([c EXCEPT ![key] =
                               [Value |-> row.Value,
                                Timestamp |-> FromIsoFormat(row.Timestamp)]],
                           rows, Tail(keys), t)

\* what _load_cache leaves in the map c for the existing file f at time t; a
\* JSONDecodeError leaves the map as it was
Loaded(c, f, t) ==
    IF f.kind = "complete" THEN LoadedMap(c, f.data, t)
    ELSE IF f.kind = "foreign" THEN LoadRows(c, f.data, f.keys, t)
    ELSE c

\* not os.path.exists: open(self.filepath, "w") creates the file, empty
LoadCreateOpen ==
    /\ boot = "down" /\ file.kind = "missing"
    /\ file' = EmptyFile
    /\ boot' = "load_dump"
    /\ UNCHANGED <<now, ticks, ttl_cfg, cache, pc, reg, snap, tmp, ret, recent,
                   lastAddT, saved, crash>>
    /\ UNCHANGED nonCacheVars

\* json.dump({}, f); return
LoadCreateDump ==
    /\ boot = "load_dump"
    /\ file' = CompleteFile(NoRows)
    /\ boot' = "up"
    /\ UNCHANGED <<now, ticks, ttl_cfg, cache, pc, reg, snap, tmp, ret, recent,
                   lastAddT, saved, crash>>
    /\ UNCHANGED nonCacheVars

\* the file exists: json.load, then the unexpired rows are put in the map
LoadRead ==
    /\ boot = "down" /\ file.kind # "missing"
    /\ cache' = Loaded(cache, file, now)
    /\ boot' = "up"
    /\ recent' = NoRecent
    /\ ret' = [NoRet EXCEPT !.op = "load_boot", !.at = now]
    /\ UNCHANGED <<now, ticks, ttl_cfg, file, pc, reg, snap, tmp, lastAddT, saved, crash>>
    /\ UNCHANGED nonCacheVars

\* get_active_tickers calls _load_cache() on the live instance
LoadLive(t) ==
    /\ boot = "up" /\ pc[t] = "idle"
    /\ cache' = Loaded(cache, file, now)
    /\ recent' = RecentAfter(cache')
    /\ ret' = [NoRet EXCEPT !.op = "load", !.at = now]
    /\ UNCHANGED <<now, ticks, ttl_cfg, file, boot, pc, reg, snap, tmp, lastAddT, saved, crash>>
    /\ UNCHANGED nonCacheVars

\* time passes: by a second, or by the instance's whole TTL
Tick(d) ==
    /\ ticks < MaxTicks
    /\ now' = now + d
    /\ ticks' = ticks + 1
    /\ UNCHANGED <<ttl_cfg, cache, file, boot, pc, reg, snap, tmp, ret, recent,
                   lastAddT, saved, crash>>
    /\ UNCHANGED nonCacheVars

\* One client thread drives the whole API of one instance.
Client == "t1"

CacheNext ==
    \/ \E k \in Keys, v \in Values : Add(Client, k, v)
    \/ \E k \in Keys : IsCached(Client, k)
    \/ \E k \in Keys : GetCheck(Client, k)
    \/ GetRead(Client)
    \/ Clear(Client)
    \/ SaveCopy(Client)
    \/ SaveOpen(Client)
    \/ SaveDumpPart(Client)
    \/ SaveDumpDone(Client)
    \/ SaveReplace(Client)
    \/ SaveFail(Client)
    \/ LoadCreateOpen
    \/ LoadCreateDump
    \/ \E d \in {1, Ttl} : Tick(d)

SpecCache == CacheInit /\ [][CacheNext]_vars

\* Persistence: the client thread and the autosave loop's thread on one key,
\* with the process killed and restarted at arbitrary points.
Autosaver == "t2"

SaveKeys == {"k1"}
SaveValues == {Scalar("a")}

SaveNext ==
    \/ \E k \in SaveKeys, v \in SaveValues : Add(Client, k, v)
    \/ \E k \in SaveKeys : IsCached(Client, k)
    \/ Clear(Client)
    \/ SaveBegin(Autosaver)
    \/ \E t \in Thr : SaveCopy(t)
    \/ \E t \in Thr : SaveOpen(t)
    \/ \E t \in Thr : SaveDumpPart(t)
    \/ \E t \in Thr : SaveDumpDone(t)
    \/ \E t \in Thr : SaveReplace(t)
    \/ \E t \in Thr : SaveFail(t)
    \/ Kill
    \/ LoadCreateOpen
    \/ LoadCreateDump
    \/ LoadRead
    \/ LoadLive(Client)
    \/ \E d \in {1, Ttl} : Tick(d)

SaveInit == CacheInit /\ ttl_cfg.minutes = Given(MaxTtlMinutes)

SpecSave == SaveInit /\ [][SaveNext]_vars

\* Two threads share one instance: one calls get(), the other the rest of the API.
Reader == "t1"
Other == "t2"

SharedNext ==
    \/ \E k \in SaveKeys : GetCheck(Reader, k)
    \/ GetRead(Reader)
    \/ \E k \in SaveKeys, v \in Values : Add(Other, k, v)
    \/ \E k \in SaveKeys : IsCached(Other, k)
    \/ Clear(Other)
    \/ SaveBegin(Other)
    \/ SaveCopy(Other)
    \/ SaveOpen(Other)
    \/ SaveDumpPart(Other)
    \/ SaveDumpDone(Other)
    \/ SaveReplace(Other)
    \/ SaveFail(Other)
    \/ LoadCreateOpen
    \/ LoadCreateDump
    \/ \E d \in {1, Ttl} : Tick(d)

SpecShared == CacheInit /\ [][SharedNext]_vars

\* ------------------------------------------------------------------------
\* The expiry test under every kind of TTL setting: each of ttl_days, ttl_hours,
\* ttl_minutes left out, zero or positive
\* ------------------------------------------------------------------------
PartChoices == {Unset, Given(0), Given(1)}
TtlInputs == [days : PartChoices, hours : PartChoices, minutes : PartChoices]

\* the timedelta is_expired of src/models/cache_manager.py builds, in seconds
ModelsTtlOf(cfg) ==
    LET none == ~cfg.days.some /\ ~cfg.hours.some /\ ~cfg.minutes.some
        d == IF none THEN DefaultTtlDays ELSE OrZero(cfg.days)
        h == OrZero(cfg.hours)
        m == OrZero(cfg.minutes)
    IN  (d * HoursPerDay * MinutesPerHour + h * MinutesPerHour + m) * SecondsPerMinute

\* is_expired of src/models/cache_manager.py applied to the entry of key
ModelsIsExpired(t, key) ==
    /\ boot = "up" /\ pc[t] = "idle"
    /\ cache[key] # NoEntry
    /\ ret' = [op |-> "models_is_expired", key |-> key, val |-> NoneVal,
                hit |-> ~(now - cache[key].Timestamp > ModelsTtlOf(ttl_cfg)),
                at |-> now]
    /\ UNCHANGED <<now, ticks, ttl_cfg, cache, file, boot, pc, reg, snap, tmp, recent,
                   lastAddT, saved, crash>>
    /\ UNCHANGED nonCacheVars

\* the time steps taken: a second, a minute, an hour, a day, the whole TTL
TtlSteps ==
    {1, SecondsPerMinute, MinutesPerHour * SecondsPerMinute,
     HoursPerDay * MinutesPerHour * SecondsPerMinute, Ttl}

TtlNext ==
    \/ LoadCreateOpen
    \/ LoadCreateDump
    \/ \E k \in SaveKeys, v \in SaveValues : Add(Client, k, v)
    \/ \E k \in SaveKeys : IsCached(Client, k)
    \/ \E k \in SaveKeys : ModelsIsExpired(Client, k)
    \/ \E d \in TtlSteps : Tick(d)

TtlInit == ttl_cfg \in TtlInputs /\ CacheStart

SpecTtl == TtlInit /\ [][TtlNext]_vars

\* ------------------------------------------------------------------------
\* Construction over a file that is already there: truncated, or written by
\* something else than _save_cache
\* ------------------------------------------------------------------------
GoodRow == [Value |-> Scalar("a"), Timestamp |-> IsoFormat(0)]
ForeignRows == {GoodRow,
                [Value |-> Scalar("a"), Timestamp |-> BadStamp],
                [Value |-> Scalar("a"), Timestamp |-> NoStamp]}
KeyOrders == {<<"k1", "k2">>, <<"k2", "k1">>}
FilesFound ==
    {EmptyFile, PartialFile(NoRows)}
    \cup {ForeignFile(rows, ks) : rows \in [Keys -> ForeignRows], ks \in KeyOrders}

\* the file found at the path when the process starts
FindFile(f) ==
    /\ boot = "down" /\ file.kind = "missing" /\ ret.op = "none"
    /\ file' = f
    /\ UNCHANGED <<now, ticks, ttl_cfg, cache, boot, pc, reg, snap, tmp, ret, recent,
                   lastAddT, saved, crash>>
    /\ UNCHANGED nonCacheVars

LoadNext ==
    \/ \E f \in FilesFound : FindFile(f)
    \/ LoadCreateOpen
    \/ LoadCreateDump
    \/ LoadRead
    \/ \E k \in Keys : IsCached(Client, k)
    \/ \E k \in Keys : GetCheck(Client, k)
    \/ GetRead(Client)
    \/ \E d \in {1, Ttl} : Tick(d)

SpecLoad == CacheInit /\ [][LoadNext]_vars

\* ------------------------------------------------------------------------
\* _load_cache and _save_cache when the file system fails
\* ------------------------------------------------------------------------
\* not os.path.exists, and open(self.filepath, "w") raises (no such directory,
\* no permission): the statement is outside the try, __init__ raises
LoadCreateFail ==
    /\ boot = "down" /\ file.kind = "missing"
    /\ boot' = "raised"
    /\ ret' = [NoRet EXCEPT !.op = "load_raised", !.at = now]
    /\ UNCHANGED <<now, ticks, ttl_cfg, cache, file, pc, reg, snap, tmp, recent,
                   lastAddT, saved, crash>>
    /\ UNCHANGED nonCacheVars

\* json.dump({}, f) raises after the file was created: outside the try as well
LoadDumpFail ==
    /\ boot = "load_dump"
    /\ boot' = "raised"
    /\ ret' = [NoRet EXCEPT !.op = "load_raised", !.at = now]
    /\ UNCHANGED <<now, ticks, ttl_cfg, cache, file, pc, reg, snap, tmp, recent,
                   lastAddT, saved, crash>>
    /\ UNCHANGED nonCacheVars

\* the file exists and open or f.read raises: except Exception logs it
LoadReadFail ==
    /\ boot = "down" /\ file.kind # "missing"
    /\ boot' = "up"
    /\ recent' = NoRecent
    /\ ret' = [NoRet EXCEPT !.op = "load_boot", !.at = now]
    /\ UNCHANGED <<now, ticks, ttl_cfg, cache, file, pc, reg, snap, tmp, lastAddT,
                   saved, crash>>
    /\ UNCHANGED nonCacheVars

FailNext ==
    \/ \E f \in FilesFound : FindFile(f)
    \/ LoadCreateOpen
    \/ LoadCreateDump
    \/ LoadCreateFail
    \/ LoadDumpFail
    \/ LoadRead
    \/ LoadReadFail
    \/ \E k \in SaveKeys, v \in SaveValues : Add(Client, k, v)
    \/ SaveBegin(Client)
    \/ SaveCopy(Client)
    \/ SaveOpen(Client)
    \/ SaveDumpPart(Client)
    \/ SaveDumpDone(Client)
    \/ SaveReplace(Client)
    \/ SaveFail(Client)
    \/ \E d \in {1, Ttl} : Tick(d)

SpecFail == CacheInit /\ [][FailNext]_vars

\* ------------------------------------------------------------------------
\* clear() on the client's thread while the autosave loop's thread saves, the
\* file system working
\* ------------------------------------------------------------------------
ClearNext ==
    \/ LoadCreateOpen
    \/ LoadCreateDump
    \/ \E k \in SaveKeys, v \in SaveValues : Add(Client, k, v)
    \/ \E k \in SaveKeys : IsCached(Client, k)
    \/ Clear(Client)
    \/ SaveBegin(Autosaver)
    \/ \E t \in Thr : SaveCopy(t)
    \/ \E t \in Thr : SaveOpen(t)
    \/ \E t \in Thr : SaveDumpPart(t)
    \/ \E t \in Thr : SaveDumpDone(t)
    \/ \E t \in Thr : SaveReplace(t)
    \/ \E d \in {1, Ttl} : Tick(d)

SpecClear == SaveInit /\ [][ClearNext]_vars

\* ------------------------------------------------------------------------
\* CacheManager.autosave_loop(stop_event), run by one thread of the instance:
\*     while not stop_event.is_set():
\*         self._save_cache()
\*         stop_event.wait(self.autosave_interval)
\* ------------------------------------------------------------------------
AutoLoop == "autosave_loop"

\* stop_event.is_set()
NeverSet(event) == FALSE
IsSet(event) == event

\* the task's thread calls autosave_loop
AutoStart(t) ==
    /\ boot = "up" /\ pc[t] = "idle" /\ reg[t] = NoReg
    /\ reg' = [reg EXCEPT ![t] = [key |-> AutoLoop, at |-> now]]
    /\ pc' = [pc EXCEPT ![t] = "auto_top"]
    /\ UNCHANGED <<now, ticks, ttl_cfg, cache, file, boot, snap, tmp, ret, recent,
                   lastAddT, saved, crash>>
    /\ UNCHANGED nonCacheVars

\* while not stop_event.is_set(): the loop ends, or _save_cache() is called
AutoTest(t) ==
    /\ boot = "up" /\ pc[t] = "auto_top"
    /\ pc' = [pc EXCEPT ![t] = IF IsSet(stop_event) THEN "auto_done" ELSE "save_copy"]
    /\ UNCHANGED <<now, ticks, ttl_cfg, cache, file, boot, reg, snap, tmp, ret, recent,
                   lastAddT, saved, crash>>
    /\ UNCHANGED nonCacheVars

\* _save_cache() returned: stop_event.wait(self.autosave_interval) begins
AutoWaitBegin(t) ==
    /\ boot = "up" /\ pc[t] = "idle" /\ reg[t].key = AutoLoop
    /\ pc' = [pc EXCEPT ![t] = "auto_wait"]
    /\ UNCHANGED <<now, ticks, ttl_cfg, cache, file, boot, reg, snap, tmp, ret, recent,
                   lastAddT, saved, crash>>
    /\ UNCHANGED nonCacheVars

\* the wait returns, because the event is set or because the interval is over
AutoWaitEnd(t) ==
    /\ boot = "up" /\ pc[t] = "auto_wait"
    /\ pc' = [pc EXCEPT ![t] = "auto_top"]
    /\ UNCHANGED <<now, ticks, ttl_cfg, cache, file, boot, reg, snap, tmp, ret, recent,
                   lastAddT, saved, crash>>
    /\ UNCHANGED nonCacheVars

\* the owner of the task sets the stop_event handed to autosave_loop
AutoCancel ==
    /\ ~stop_event
    /\ stop_event' = TRUE
    /\ cancelAt' = now
    /\ UNCHANGED <<subjects, fetch_q, fetch_unf, result_q, result_unf, sem, api, ana,
                   runner, clock, analysed, failed, requeues, total_iterated, ignored,
                   failures, resume>>
    /\ UNCHANGED <<cacheVars, rateVars, mgrVars, apiw>>

AutoNext ==
    \/ LoadCreateOpen
    \/ LoadCreateDump
    \/ \E k \in SaveKeys, v \in SaveValues : Add(Client, k, v)
    \/ \E k \in SaveKeys : IsCached(Client, k)
    \/ Clear(Client)
    \/ AutoStart(Autosaver)
    \/ AutoTest(Autosaver)
    \/ AutoWaitBegin(Autosaver)
    \/ AutoWaitEnd(Autosaver)
    \/ AutoCancel
    \/ \E t \in Thr : SaveCopy(t)
    \/ \E t \in Thr : SaveOpen(t)
    \/ \E t \in Thr : SaveDumpPart(t)
    \/ \E t \in Thr : SaveDumpDone(t)
    \/ \E t \in Thr : SaveReplace(t)
    \/ \E d \in {1, Ttl} : Tick(d)

\* every thread of the process takes its steps; the interval of a wait ends
AutoFairness ==
    /\ WF_vars(LoadCreateOpen) /\ WF_vars(LoadCreateDump)
    /\ WF_vars(AutoStart(Autosaver))
    /\ WF_vars(AutoTest(Autosaver))
    /\ WF_vars(AutoWaitBegin(Autosaver))
    /\ WF_vars(AutoWaitEnd(Autosaver))
    /\ \A t \in Thr : WF_vars(SaveCopy(t))
    /\ \A t \in Thr : WF_vars(SaveOpen(t))
    /\ \A t \in Thr : WF_vars(SaveDumpDone(t))
    /\ \A t \in Thr : WF_vars(SaveReplace(t))

SpecAuto == SaveInit /\ [][AutoNext]_vars /\ AutoFairness

\* ------------------------------------------------------------------------
\* Rate limiter: scanner_utils.is_rate_limited and the callers that gate an
\* outbound call on the RateLimitCache
\* ------------------------------------------------------------------------
NewsApiReset == 86400
AiRateLimitTtl == 60
RateLimitTtlDays == 30

NewsProvider == "k1"    \* "NewsAPI", gated by NewsAPIClient.fetch
AiProvider == "k2"      \* an AI_MODEL name, gated by create_from_env

\* RateLimitCache() right after construction
RateInit ==
    /\ now = 0
    /\ ticks = 0
    /\ ttl_cfg = [days |-> Given(RateLimitTtlDays), hours |-> Unset, minutes |-> Unset]
    /\ cache = EmptyMap
    /\ file = CompleteFile(NoRows)
    /\ boot = "up"
    /\ pc = Idle
    /\ reg = [t \in Thr |-> NoReg]
    /\ snap = [t \in Thr |-> EmptyMap]
    /\ tmp = [t \in Thr |-> NoTmp]
    /\ ret = NoRet
    /\ recent = NoRecent
    /\ lastAddT = [k \in Keys |-> -1]
    /\ saved = NotSaved
    /\ crash = "none"
    /\ RateIdle
    /\ MgrIdle
    /\ PipeIdle

\* is_rate_limited, up to the comparison: "no" (not limited), "yes" (limited),
\* "expired" (the record is past its reset time and is about to be deleted)
RateLimitedRead(c, key, t) ==
    IF c[key] = NoEntry THEN "no"
    ELSE IF c[key].Value = NoneVal THEN "no"
    ELSE IF t >= c[key].Timestamp + c[key].Value.n THEN "expired"
    ELSE "yes"

\* NewsAPIClient.fetch: the pre-check, is_rate_limited(self.rate_cache, "NewsAPI")
NewsPrecheck(t) ==
    /\ boot = "up" /\ pc[t] = "idle"
    /\ LET r == RateLimitedRead(cache, NewsProvider, now)
       IN  /\ pc' = [pc EXCEPT ![t] = CASE r = "no" -> "news_call"
                                        [] r = "expired" -> "rl_del"
                                        [] OTHER -> "idle"]
           /\ gate' = IF r = "expired" THEN gate
                      ELSE [caller |-> "news", provider |-> NewsProvider, at |-> now,
                            limited |-> (r = "yes")]
    /\ reg' = [reg EXCEPT ![t] = [key |-> NewsProvider, at |-> now]]
    /\ UNCHANGED <<now, ticks, ttl_cfg, cache, file, boot, snap, tmp, ret, recent,
                   lastAddT, saved, crash, marks>>
    /\ UNCHANGED sysVars

\* is_rate_limited: with cache._lock: del cache._cache[key]; return False
\* (the del raises KeyError when the record is already gone)
RateLimitedDelete(t) ==
    /\ boot = "up" /\ pc[t] = "rl_del"
    /\ IF cache[reg[t].key] = NoEntry
       THEN /\ pc' = [pc EXCEPT ![t] = "idle"]
            /\ ret' = [NoRet EXCEPT !.op = "rl_keyerror", !.key = reg[t].key,
                                    !.at = reg[t].at]
            /\ UNCHANGED <<cache, recent, gate>>
       ELSE /\ cache' = [cache EXCEPT ![reg[t].key] = NoEntry]
            /\ recent' = NoRecent
            /\ pc' = [pc EXCEPT ![t] = "news_call"]
            /\ gate' = [caller |-> "news", provider |-> reg[t].key, at |-> reg[t].at,
                        limited |-> FALSE]
            /\ UNCHANGED ret
    /\ UNCHANGED <<now, ticks, ttl_cfg, file, boot, reg, snap, tmp, lastAddT, saved,
                   crash, marks>>
    /\ UNCHANGED sysVars

\* MarkLimited(provider, resetSeconds): rate_cache.add(provider, resetSeconds)
MarkLimited(t, provider, r) ==
    /\ AddCore(t, provider, IntVal(r))
    /\ marks' = [marks EXCEPT ![provider] = [at |-> now, r |-> r]]
    /\ gate' = IF gate.provider = provider THEN NoGate ELSE gate
    /\ UNCHANGED sysVars

\* requests.get answered 429: self.rate_cache.add("NewsAPI", 3600 * 24)
NewsCall429(t) ==
    /\ pc[t] = "news_call"
    /\ MarkLimited(t, NewsProvider, NewsApiReset)
    /\ pc' = [pc EXCEPT ![t] = "idle"]

\* requests.get answered with articles
NewsCallOk(t) ==
    /\ boot = "up" /\ pc[t] = "news_call"
    /\ pc' = [pc EXCEPT ![t] = "idle"]
    /\ UNCHANGED <<now, ticks, ttl_cfg, cache, file, boot, reg, snap, tmp, ret, recent,
                   lastAddT, saved, crash, marks, gate>>
    /\ UNCHANGED sysVars

\* AIModelInterface.create_from_env: the pre-check, not rate_cache.is_cached(p.name)
AiPrecheck(t) ==
    /\ boot = "up" /\ pc[t] = "idle"
    /\ cache' = IsCachedMap(cache, AiProvider, now)
    /\ recent' = RecentAfter(cache')
    /\ gate' = [caller |-> "ai", provider |-> AiProvider, at |-> now,
                limited |-> IsCachedResult(cache, AiProvider, now)]
    /\ pc' = [pc EXCEPT ![t] = IF IsCachedResult(cache, AiProvider, now)
                               THEN "idle" ELSE "ai_call"]
    /\ UNCHANGED <<now, ticks, ttl_cfg, file, boot, reg, snap, tmp, ret, lastAddT,
                   saved, crash, marks>>
    /\ UNCHANGED sysVars

\* _post_with_retries got 429: self.rate_cache.add(self.provider.name, ttl)
AiCall429(t) ==
    /\ pc[t] = "ai_call"
    /\ MarkLimited(t, AiProvider, AiRateLimitTtl)
    /\ pc' = [pc EXCEPT ![t] = "idle"]

\* the provider answered
AiCallOk(t) ==
    /\ boot = "up" /\ pc[t] = "ai_call"
    /\ pc' = [pc EXCEPT ![t] = "idle"]
    /\ UNCHANGED <<now, ticks, ttl_cfg, cache, file, boot, reg, snap, tmp, ret, recent,
                   lastAddT, saved, crash, marks, gate>>
    /\ UNCHANGED sysVars

RateNext ==
    \/ \E t \in Thr : NewsPrecheck(t)
    \/ \E t \in Thr : RateLimitedDelete(t)
    \/ \E t \in Thr : NewsCall429(t)
    \/ \E t \in Thr : NewsCallOk(t)
    \/ \E t \in Thr : AiPrecheck(t)
    \/ \E t \in Thr : AiCall429(t)
    \/ \E t \in Thr : AiCallOk(t)
    \/ \E d \in {1, AiRateLimitTtl, NewsApiReset} : Tick(d)

SpecRate == RateInit /\ [][RateNext]_vars

\* ------------------------------------------------------------------------
\* YFinanceFetcher.fetch_ticker and wait_rate_limit
\* ------------------------------------------------------------------------
YfProvider == "k1"      \* "YFinance"
DefaultCooldown == 60   \* default_cooldown_seconds

\* wait_time = min(self.default_cooldown * (3 ** retries), 1800)
BackOff(retries) ==
    IF DefaultCooldown * (3 ^ retries) < 1800 THEN DefaultCooldown * (3 ^ retries)
    ELSE 1800

\* the first and the second retry of a fetch
BackOffs == {BackOff(1), BackOff(2)}

\* while retries < max_retries: if is_rate_limited(self.rate_cache, "YFinance")
YfCheck(t) ==
    /\ boot = "up" /\ pc[t] = "idle"
    /\ LET r == RateLimitedRead(cache, YfProvider, now)
       IN  pc' = [pc EXCEPT ![t] = CASE r = "no" -> "yf_call"
                                    [] r = "expired" -> "yf_del"
                                    [] OTHER -> "wait_read"]
    /\ reg' = [reg EXCEPT ![t] = [key |-> YfProvider, at |-> now]]
    /\ UNCHANGED <<now, ticks, ttl_cfg, cache, file, boot, snap, tmp, ret, recent,
                   lastAddT, saved, crash, marks, gate>>
    /\ UNCHANGED sysVars

\* is_rate_limited and wait_rate_limit on a record past its reset time:
\* with cache._lock: del cache._cache[key]  (KeyError when the record is gone;
\* nothing in fetch_ticker catches it)
YfDelete(t) ==
    /\ boot = "up" /\ pc[t] = "yf_del"
    /\ IF cache[YfProvider] = NoEntry
       THEN /\ pc' = [pc EXCEPT ![t] = "idle"]
            /\ ret' = [NoRet EXCEPT !.op = "rl_keyerror", !.key = YfProvider,
                                    !.at = reg[t].at]
            /\ UNCHANGED <<cache, recent>>
       ELSE /\ cache' = [cache EXCEPT ![YfProvider] = NoEntry]
            /\ recent' = RecentAfter(cache')
            /\ pc' = [pc EXCEPT ![t] = "yf_call"]
            /\ UNCHANGED ret
    /\ UNCHANGED <<now, ticks, ttl_cfg, file, boot, reg, snap, tmp, lastAddT, saved,
                   crash, marks, gate>>
    /\ UNCHANGED sysVars

\* wait_rate_limit up to the sleep: item = cache._cache.get(key); no record:
\* return; past reset_time: delete; else remaining = reset_time - now
WaitRead(t) ==
    /\ boot = "up" /\ pc[t] = "wait_read"
    /\ LET r == RateLimitedRead(cache, YfProvider, now)
       IN  /\ pc' = [pc EXCEPT ![t] = CASE r = "no" -> "yf_call"
                                        [] r = "expired" -> "yf_del"
                                        [] OTHER -> "wait_sleep"]
           /\ reg' = [reg EXCEPT ![t] =
                         IF r = "yes"
                         THEN [key |-> YfProvider,
                               at |-> cache[YfProvider].Timestamp
                                          + cache[YfProvider].Value.n]
                         ELSE [key |-> YfProvider, at |-> now]]
    /\ UNCHANGED <<now, ticks, ttl_cfg, cache, file, boot, snap, tmp, ret, recent,
                   lastAddT, saved, crash, marks, gate>>
    /\ UNCHANGED sysVars

\* pyTime.sleep(remaining) is over: with cache._lock: cache._cache.pop(key, None)
WaitWake(t) ==
    /\ boot = "up" /\ pc[t] = "wait_sleep"
    /\ now >= reg[t].at
    /\ gate' = [caller |-> "wait", provider |-> YfProvider, at |-> now,
                limited |-> (RateLimitedRead(cache, YfProvider, now) = "yes")]
    /\ cache' = [cache EXCEPT ![YfProvider] = NoEntry]
    /\ recent' = RecentAfter(cache')
    /\ pc' = [pc EXCEPT ![t] = "yf_call"]
    /\ UNCHANGED <<now, ticks, ttl_cfg, file, boot, reg, snap, tmp, ret, lastAddT,
                   saved, crash, marks>>
    /\ UNCHANGED sysVars

\* obj.info answered: with self.rate_cache._lock: the record is deleted if present
YfCallOk(t) ==
    /\ boot = "up" /\ pc[t] = "yf_call"
    /\ cache' = [cache EXCEPT ![YfProvider] = NoEntry]
    /\ recent' = RecentAfter(cache')
    /\ pc' = [pc EXCEPT ![t] = "idle"]
    /\ UNCHANGED <<now, ticks, ttl_cfg, file, boot, reg, snap, tmp, ret, lastAddT,
                   saved, crash, marks, gate>>
    /\ UNCHANGED sysVars

\* obj.info raised: self._update_cooldown(wait_time), that is
\* self.rate_cache.add("YFinance", wait_time), then time.sleep(wait_time)
YfCallFail(t, wait_time) ==
    /\ boot = "up" /\ pc[t] = "yf_call"
    /\ cache' = AddEntry(cache, YfProvider, IntVal(wait_time), now)
    /\ recent' = [key |-> YfProvider, val |-> IntVal(wait_time), at |-> now]
    /\ lastAddT' = [lastAddT EXCEPT ![YfProvider] = now]
    /\ ret' = [NoRet EXCEPT !.op = "add", !.key = YfProvider, !.at = now]
    /\ marks' = [marks EXCEPT ![YfProvider] = [at |-> now, r |-> wait_time]]
    /\ reg' = [reg EXCEPT ![t] = [key |-> YfProvider, at |-> now + wait_time]]
    /\ pc' = [pc EXCEPT ![t] = "yf_backoff"]
    /\ UNCHANGED <<now, ticks, ttl_cfg, file, boot, snap, tmp, saved, crash, gate>>
    /\ UNCHANGED sysVars

\* time.sleep(wait_time) is over: the next turn of the retry loop
YfBackOffEnd(t) ==
    /\ boot = "up" /\ pc[t] = "yf_backoff"
    /\ now >= reg[t].at
    /\ pc' = [pc EXCEPT ![t] = "idle"]
    /\ UNCHANGED <<now, ticks, ttl_cfg, cache, file, boot, reg, snap, tmp, ret, recent,
                   lastAddT, saved, crash, marks, gate>>
    /\ UNCHANGED sysVars

\* the stop_event of the run is set while its workers are inside fetch_ticker;
\* the time of the signal is kept, in seconds
CancelFetch ==
    /\ ~stop_event
    /\ stop_event' = TRUE
    /\ cancelAt' = now
    /\ UNCHANGED <<subjects, fetch_q, fetch_unf, result_q, result_unf, sem, api, ana,
                   runner, clock, analysed, failed, requeues, total_iterated, ignored,
                   failures, resume>>
    /\ UNCHANGED <<cacheVars, rateVars, mgrVars, apiw>>

WaitNext ==
    \/ \E t \in Thr : YfCheck(t)
    \/ \E t \in Thr : YfDelete(t)
    \/ \E t \in Thr : WaitRead(t)
    \/ \E t \in Thr : WaitWake(t)
    \/ \E t \in Thr : YfCallOk(t)
    \/ \E t \in Thr : \E wait_time \in BackOffs : YfCallFail(t, wait_time)
    \/ \E t \in Thr : YfBackOffEnd(t)
    \/ \E d \in {1} \cup BackOffs : Tick(d)
    \/ CancelFetch

SpecWait == RateInit /\ [][WaitNext]_vars

\* ------------------------------------------------------------------------
\* ThreadWrapper: one record per instance
\* ------------------------------------------------------------------------
MaxTod == Window.end + 1   \* the clock runs from 0 to just past the window
MaxAdds == 1        \* add_thread calls in a run of the manager
MaxReloadAdds == 2  \* add_thread calls in a run that exercises the reload order
MaxTouches == 1     \* file modifications in a run

\* for _ in range(int(self._cooldown_seconds)): ... time.sleep(1)
CooldownNone(cooldown_seconds) == 0
CooldownSleeps(cooldown_seconds) == cooldown_seconds

NewWrapper(name, sched, deps, prev, pc0) ==
    [name |-> name, pc |-> pc0, stop |-> FALSE, reload |-> FALSE,
     win |-> sched.win, cool |-> sched.cool, left |-> 0, invokedAt |-> -1,
     returnedAt |-> -1, deps |-> deps, prev |-> prev]

WrapperIds == 1..Len(wrappers)
Alive(w) == wrappers[w].pc \in {"top", "running", "cooldown"}

\* a thread that has ended: its events and counters are never read again
Ended(ws, w) ==
    [ws EXCEPT ![w].pc = "done", ![w].stop = FALSE, ![w].reload = FALSE,
               ![w].left = 0, ![w].invokedAt = -1, ![w].returnedAt = -1]

\* Thread.join() returns once the thread has terminated
JoinedAtOnce(w) == TRUE
Joined(w) == wrappers[w].pc = "done"

\* ThreadWrapper.stop; the events of a thread that has ended are never read again
Stopped(ws, w) ==
    IF ws[w].pc = "done" THEN ws
    ELSE [ws EXCEPT ![w].stop = TRUE, ![w].reload = TRUE]

\* run(), top of the loop: now_seconds < start_seconds keeps the thread sleeping
ReadyAtTop(w) ==
    /\ wrappers[w].pc = "top"
    /\ \/ wrappers[w].stop
       \/ ~wrappers[w].win.some
       \/ tod >= wrappers[w].win.start

\* while not self._stop_event.is_set(): ... falls through, the thread ends
RunExit(w) ==
    /\ wrappers[w].pc = "top" /\ wrappers[w].stop
    /\ wrappers' = Ended(wrappers, w)
    /\ UNCHANGED <<tod, threads, order, mstop, main, watcher, mtime, seen, regs,
                   lastReload, dupAdd>>
    /\ UNCHANGED <<cacheVars, rateVars, pipeVars, apiw>>

\* the start_time check passed: self._target_func(stop_event=..., **kwargs)
RunInvoke(w) ==
    /\ ReadyAtTop(w) /\ ~wrappers[w].stop
    /\ wrappers' = [wrappers EXCEPT ![w].pc = "running", ![w].invokedAt = tod]
    /\ UNCHANGED <<tod, threads, order, mstop, main, watcher, mtime, seen, regs,
                   lastReload, dupAdd>>
    /\ UNCHANGED <<cacheVars, rateVars, pipeVars, apiw>>

\* the entry point returned: the cooldown loop starts, or without a cooldown: break
EntryReturn(w) ==
    /\ wrappers[w].pc = "running"
    /\ wrappers' = IF wrappers[w].cool > 0
                   THEN [wrappers EXCEPT ![w].pc = "cooldown", ![w].invokedAt = -1,
                                         ![w].returnedAt = tod,
                                         ![w].left = CooldownSleeps(wrappers[w].cool)]
                   ELSE Ended(wrappers, w)
    /\ UNCHANGED <<tod, threads, order, mstop, main, watcher, mtime, seen, regs,
                   lastReload, dupAdd>>
    /\ UNCHANGED <<cacheVars, rateVars, pipeVars, apiw>>

\* the entry point raised: except Exception: log, break
EntryCrash(w) ==
    /\ wrappers[w].pc = "running"
    /\ wrappers' = Ended(wrappers, w)
    /\ UNCHANGED <<tod, threads, order, mstop, main, watcher, mtime, seen, regs,
                   lastReload, dupAdd>>
    /\ UNCHANGED <<cacheVars, rateVars, pipeVars, apiw>>

\* the cooldown loop ended (all sleeps done, or stop / reload seen): the end_time
\* check, then the reload flag is cleared and the loop starts over
CooldownEnd(w) ==
    /\ wrappers[w].pc = "cooldown"
    /\ wrappers[w].left = 0 \/ wrappers[w].stop \/ wrappers[w].reload
    /\ wrappers' = IF wrappers[w].win.some /\ tod >= wrappers[w].win.end
                   THEN Ended(wrappers, w)
                   ELSE [wrappers EXCEPT ![w].pc = "top", ![w].left = 0,
                                         ![w].reload = FALSE]
    /\ UNCHANGED <<tod, threads, order, mstop, main, watcher, mtime, seen, regs,
                   lastReload, dupAdd>>
    /\ UNCHANGED <<cacheVars, rateVars, pipeVars, apiw>>

\* one second passes; a thread at the top of its loop that can go on does so
\* first, and so does the caller of start_watcher after the thread's start
TickTod ==
    /\ tod < MaxTod
    /\ main.pc # "starting"
    /\ \A w \in WrapperIds : ~ReadyAtTop(w)
    /\ tod' = tod + 1
    /\ wrappers' = [w \in WrapperIds |->
                      IF wrappers[w].pc = "cooldown" /\ wrappers[w].left > 0
                      THEN [wrappers[w] EXCEPT !.left = @ - 1]
                      ELSE wrappers[w]]
    /\ UNCHANGED <<threads, order, mstop, main, watcher, mtime, seen, regs,
                   lastReload, dupAdd>>
    /\ UNCHANGED <<cacheVars, rateVars, pipeVars, apiw>>

\* ------------------------------------------------------------------------
\* ThreadManager.add_thread, register_module, start_watcher
\* ------------------------------------------------------------------------
AddedSoFar == Cardinality({w \in WrapperIds : wrappers[w].prev = 0})

AddThread(name, sched, deps) ==
    /\ main.pc = "idle"
    /\ wrappers' = Append(wrappers, NewWrapper(name, sched, deps, 0, "top"))
    /\ threads' = [threads EXCEPT ![name] = Len(wrappers) + 1]
    /\ order' = IF threads[name] = 0 THEN Append(order, name) ELSE order
    /\ dupAdd' = (dupAdd \/ threads[name] # 0)
    /\ UNCHANGED <<tod, mstop, main, watcher, mtime, seen, regs, lastReload>>
    /\ UNCHANGED <<cacheVars, rateVars, pipeVars, apiw>>

RegisterModule(m) ==
    /\ main.pc = "idle"
    /\ regs[m] = -1
    /\ regs' = [regs EXCEPT ![m] = mtime[ModuleFile(m)]]
    /\ UNCHANGED <<tod, wrappers, threads, order, mstop, main, watcher, mtime, seen,
                   lastReload, dupAdd>>
    /\ UNCHANGED <<cacheVars, rateVars, pipeVars, apiw>>

\* start_watcher: self._file_timestamps = self._scan_files(); the thread starts
StartWatcher ==
    /\ main.pc = "idle"
    /\ watcher.pc = "none"
    /\ seen' = mtime
    /\ watcher' = [watcher EXCEPT !.pc = "top"]
    /\ main' = [main EXCEPT !.pc = "starting"]
    /\ UNCHANGED <<tod, wrappers, threads, order, mstop, mtime, regs,
                   lastReload, dupAdd>>
    /\ UNCHANGED <<cacheVars, rateVars, pipeVars, apiw>>

\* start_watcher, after the thread was started: self._initial_scan_done = True
StartWatcherDone ==
    /\ main.pc = "starting"
    /\ watcher' = [watcher EXCEPT !.initial_scan_done = TRUE]
    /\ main' = [main EXCEPT !.pc = "idle"]
    /\ UNCHANGED <<tod, wrappers, threads, order, mstop, mtime, seen, regs,
                   lastReload, dupAdd>>
    /\ UNCHANGED <<cacheVars, rateVars, pipeVars, apiw>>

\* somebody saves a watched file
TouchFile(f) ==
    /\ mtime["fS"] + mtime["fM"] < MaxTouches
    /\ mtime' = [mtime EXCEPT ![f] = @ + 1]
    /\ UNCHANGED <<tod, wrappers, threads, order, mstop, main, watcher, seen, regs,
                   lastReload, dupAdd>>
    /\ UNCHANGED <<cacheVars, rateVars, pipeVars, apiw>>

\* ------------------------------------------------------------------------
\* reload_modules_in_order(module_names, visited): the modules in the order in
\* which importlib.reload is applied to them
\* ------------------------------------------------------------------------
RECURSIVE FirstThreadOf(_, _)
\* next((t for t in self._threads.values() if t._target_func.__module__ == mod), None)
FirstThreadOf(names, mod) ==
    IF names = <<>> THEN 0
    ELSE IF TargetModule(Head(names)) = mod THEN threads[Head(names)]
    ELSE FirstThreadOf(Tail(names), mod)

\* a buggy variant: the listed modules are reloaded last to first, no recursion
ReloadModulesReversed(module_names, visited, log) ==
    [visited |-> visited,
     log |-> log \o [i \in 1..Len(module_names) |->
                        module_names[Len(module_names) + 1 - i]]]

RECURSIVE ReloadModulesInOrder(_, _, _)
ReloadModulesInOrder(module_names, visited, log) ==
    IF module_names = <<>> THEN [visited |-> visited, log |-> log]
    ELSE LET mod_name == Head(module_names)
             thread == FirstThreadOf(order, mod_name)
             seenNow == visited \cup {mod_name}
             inner == IF thread # 0 /\ wrappers[thread].deps # <<>>
                      THEN ReloadModulesInOrder(wrappers[thread].deps, seenNow, log)
                      ELSE [visited |-> seenNow, log |-> log]
         IN  IF mod_name \in visited
             THEN ReloadModulesInOrder(Tail(module_names), visited, log)
             ELSE ReloadModulesInOrder(Tail(module_names), inner.visited,
                                       Append(inner.log, mod_name))

\* modules_to_reload = wrapper._module_dependencies + [wrapper._target_func.__module__]
ModulesToReload(w) == wrappers[w].deps \o <<TargetModule(wrappers[w].name)>>

\* the listed dependencies that are not the module of a registered task which has
\* dependencies of its own: reload_modules_in_order does not recurse for them
PlainDeps(w) ==
    { wrappers[w].deps[i] : i \in { j \in 1..Len(wrappers[w].deps) :
        LET t == FirstThreadOf(order, wrappers[w].deps[j])
        IN  t = 0 \/ wrappers[t].deps = <<>> } }

\* START_TIME / END_TIME / COOLDOWN_SECONDS (or DEFAULT_*) of the reloaded module,
\* else what the old wrapper had: task A's module defines them, task B's does not
ReloadSchedule(w) ==
    IF wrappers[w].name = "A" THEN Windowed
    ELSE [win |-> wrappers[w].win, cool |-> wrappers[w].cool]

\* importlib.reload / import_module of each module of the log, counted
Reloads(count, log) ==
    [m \in Modules |-> count[m] + Cardinality({i \in 1..Len(log) : log[i] = m})]

\* list(self._threads.items()) filtered: the (name, wrapper) pairs to restart
RECURSIVE Snapshot(_, _)
Snapshot(names, keep) ==
    IF names = <<>> THEN <<>>
    ELSE IF Head(names) \in keep
         THEN <<[name |-> Head(names), w |-> threads[Head(names)]]>>
                  \o Snapshot(Tail(names), keep)
         ELSE Snapshot(Tail(names), keep)

\* current_files.items(), the entries the test of line 196 lets through
RECURSIVE ChangedFiles(_)
ChangedFiles(paths) ==
    IF paths = <<>> THEN <<>>
    ELSE IF seen[Head(paths)] < mtime[Head(paths)]
         THEN <<[path |-> Head(paths), mt |-> mtime[Head(paths)]]>>
                  \o ChangedFiles(Tail(paths))
         ELSE ChangedFiles(Tail(paths))

\* ------------------------------------------------------------------------
\* _watch_loop and _handle_file_change, one step per blocking or shared access
\* ------------------------------------------------------------------------
\* while not self._manager_stop_event.is_set(): current_files = self._scan_files()
WatchScan ==
    /\ watcher.pc = "top"
    /\ watcher' = IF mstop THEN [watcher EXCEPT !.pc = "done"]
                  ELSE [watcher EXCEPT !.pc = "iter", !.pending = ChangedFiles(PathOrder)]
    /\ UNCHANGED <<tod, wrappers, threads, order, mstop, main, mtime, seen, regs,
                   lastReload, dupAdd>>
    /\ UNCHANGED <<cacheVars, rateVars, pipeVars, apiw>>

\* the for loop over the scan: break on the stop event, else record the mtime and,
\* if self._initial_scan_done, enter _handle_file_change(path), whose first loop
\* snapshots the task table
WatchIter ==
    /\ watcher.pc = "iter"
    /\ IF watcher.pending = <<>> \/ mstop
       THEN /\ watcher' = [watcher EXCEPT !.pc = "top", !.pending = <<>>]
            /\ UNCHANGED <<seen, lastReload>>
       ELSE LET item == Head(watcher.pending)
            IN  /\ seen' = [seen EXCEPT ![item.path] = item.mt]
                /\ lastReload' = IF watcher.initial_scan_done
                                 THEN [lastReload EXCEPT !.event = NoneReloaded]
                                 ELSE lastReload
                /\ watcher' =
                       IF watcher.initial_scan_done
                       THEN [watcher EXCEPT
                                !.pc = "tasks",
                                !.phase = "tasks",
                                !.pending = Tail(watcher.pending),
                                !.todo = Snapshot(order,
                                           {n \in Tasks : item.path \in ReloadFiles(n)})]
                       ELSE [watcher EXCEPT !.pending = Tail(watcher.pending)]
    /\ UNCHANGED <<tod, wrappers, threads, order, mstop, main, mtime, regs, dupAdd>>
    /\ UNCHANGED <<cacheVars, rateVars, pipeVars, apiw>>

\* wrapper.stop()
WatcherStop ==
    /\ watcher.pc \in {"tasks", "mods"}
    /\ watcher.todo # <<>>
    /\ wrappers' = Stopped(wrappers, Head(watcher.todo).w)
    /\ watcher' = [watcher EXCEPT !.pc = "join"]
    /\ UNCHANGED <<tod, threads, order, mstop, main, mtime, seen, regs,
                   lastReload, dupAdd>>
    /\ UNCHANGED <<cacheVars, rateVars, pipeVars, apiw>>

\* wrapper.join()
WatcherJoin ==
    /\ watcher.pc = "join"
    /\ Joined(Head(watcher.todo).w)
    /\ watcher' = [watcher EXCEPT !.pc = "reload"]
    /\ UNCHANGED <<tod, wrappers, threads, order, mstop, main, mtime, seen, regs,
                   lastReload, dupAdd>>
    /\ UNCHANGED <<cacheVars, rateVars, pipeVars, apiw>>

\* reload_modules_in_order(modules_to_reload), then the target is looked up again
WatcherReload ==
    /\ watcher.pc = "reload"
    /\ LET w == Head(watcher.todo).w
       IN  lastReload' = [task |-> wrappers[w].name,
                          deps |-> wrappers[w].deps,
                          own |-> TargetModule(wrappers[w].name),
                          plain |-> PlainDeps(w),
                          log |-> ReloadModulesInOrder(ModulesToReload(w), {}, <<>>).log
                                      \o <<"resolve">>,
                          event |-> Reloads(lastReload.event,
                              ReloadModulesInOrder(ModulesToReload(w), {}, <<>>).log)]
    /\ watcher' = [watcher EXCEPT !.pc = "install"]
    /\ UNCHANGED <<tod, wrappers, threads, order, mstop, main, mtime, seen, regs, dupAdd>>
    /\ UNCHANGED <<cacheVars, rateVars, pipeVars, apiw>>

\* new_wrapper = ThreadWrapper(...); self._threads[name] = new_wrapper
WatcherInstall ==
    /\ watcher.pc = "install"
    /\ LET old == Head(watcher.todo)
       IN  /\ wrappers' = Append(wrappers,
                  NewWrapper(old.name, ReloadSchedule(old.w), wrappers[old.w].deps,
                             old.w, "created"))
           /\ threads' = [threads EXCEPT ![old.name] = Len(wrappers) + 1]
    /\ watcher' = [watcher EXCEPT !.pc = "start", !.new = Len(wrappers) + 1]
    /\ UNCHANGED <<tod, order, mstop, main, mtime, seen, regs, lastReload, dupAdd>>
    /\ UNCHANGED <<cacheVars, rateVars, pipeVars, apiw>>

\* new_wrapper.start()
WatcherStart ==
    /\ watcher.pc = "start"
    /\ wrappers' = [wrappers EXCEPT ![watcher.new].pc = "top"]
    /\ watcher' = [watcher EXCEPT !.pc = watcher.phase, !.new = 0,
                                  !.todo = Tail(watcher.todo)]
    /\ UNCHANGED <<tod, threads, order, mstop, main, mtime, seen, regs,
                   lastReload, dupAdd>>
    /\ UNCHANGED <<cacheVars, rateVars, pipeVars, apiw>>

\* the first loop is over: the registered modules are compared with their files;
\* a changed one is reloaded and the tasks that target or list it are restarted
WatcherModules ==
    /\ watcher.pc = "tasks"
    /\ watcher.todo = <<>>
    /\ LET m == CHOOSE x \in RegModules : TRUE
       IN  IF regs[m] # -1 /\ mtime[ModuleFile(m)] # regs[m]
           THEN /\ regs' = [regs EXCEPT ![m] = mtime[ModuleFile(m)]]
                /\ lastReload' = [lastReload EXCEPT !.event = Reloads(@, <<m>>)]
                /\ watcher' = [watcher EXCEPT
                       !.pc = "mods",
                       !.phase = "mods",
                       !.todo = Snapshot(order,
                                   {n \in Tasks :
                                      /\ threads[n] # 0
                                      /\ \/ TargetModule(n) = m
                                         \/ \E i \in 1..Len(wrappers[threads[n]].deps) :
                                                wrappers[threads[n]].deps[i] = m})]
           ELSE /\ watcher' = [watcher EXCEPT !.pc = "iter", !.phase = ""]
                /\ UNCHANGED <<regs, lastReload>>
    /\ UNCHANGED <<tod, wrappers, threads, order, mstop, main, mtime, seen, dupAdd>>
    /\ UNCHANGED <<cacheVars, rateVars, pipeVars, apiw>>

\* the second loop is over: _handle_file_change returns
WatcherHandled ==
    /\ watcher.pc = "mods"
    /\ watcher.todo = <<>>
    /\ watcher' = [watcher EXCEPT !.pc = "iter", !.phase = ""]
    /\ UNCHANGED <<tod, wrappers, threads, order, mstop, main, mtime, seen, regs,
                   lastReload, dupAdd>>
    /\ UNCHANGED <<cacheVars, rateVars, pipeVars, apiw>>

\* ------------------------------------------------------------------------
\* ThreadManager.stop_all
\* ------------------------------------------------------------------------
\* self._manager_stop_event.set()
StopAllBegin ==
    /\ main.pc = "idle"
    /\ mstop' = TRUE
    /\ main' = [pc |-> "stop_loop", i |-> 1]
    /\ UNCHANGED <<tod, wrappers, threads, order, watcher, mtime, seen, regs,
                   lastReload, dupAdd>>
    /\ UNCHANGED <<cacheVars, rateVars, pipeVars, apiw>>

\* for t in self._threads.values(): t.stop()
StopAllStop ==
    /\ main.pc = "stop_loop"
    /\ IF main.i > Len(order)
       THEN /\ main' = [pc |-> "join_loop", i |-> 1]
            /\ UNCHANGED wrappers
       ELSE /\ wrappers' = Stopped(wrappers, threads[order[main.i]])
            /\ main' = [main EXCEPT !.i = @ + 1]
    /\ UNCHANGED <<tod, threads, order, mstop, watcher, mtime, seen, regs,
                   lastReload, dupAdd>>
    /\ UNCHANGED <<cacheVars, rateVars, pipeVars, apiw>>

\* for t in self._threads.values(): t.join()   (a thread not yet started: RuntimeError)
StopAllJoin ==
    /\ main.pc = "join_loop"
    /\ IF main.i > Len(order)
       THEN main' = [pc |-> "join_watcher", i |-> 0]
       ELSE LET w == threads[order[main.i]]
            IN  IF wrappers[w].pc = "created"
                THEN main' = [pc |-> "raised", i |-> 0]
                ELSE /\ Joined(w)
                     /\ main' = [main EXCEPT !.i = @ + 1]
    /\ UNCHANGED <<tod, wrappers, threads, order, mstop, watcher, mtime, seen, regs,
                   lastReload, dupAdd>>
    /\ UNCHANGED <<cacheVars, rateVars, pipeVars, apiw>>

\* if self._watcher_thread and self._watcher_thread.is_alive(): join(); return
StopAllJoinWatcher ==
    /\ main.pc = "join_watcher"
    /\ watcher.pc \in {"none", "done"}
    /\ main' = [pc |-> "returned", i |-> 0]
    /\ UNCHANGED <<tod, wrappers, threads, order, mstop, watcher, mtime, seen, regs,
                   lastReload, dupAdd>>
    /\ UNCHANGED <<cacheVars, rateVars, pipeVars, apiw>>

\* ------------------------------------------------------------------------
\* The manager with the tasks of run_scan: scheduling, hot reload, shutdown
\* ------------------------------------------------------------------------
\* module_dependencies as run_scan passes them: the buy scanner lists a registered
\* module, the sell scanner lists nothing
AppDeps(name) == IF name = "A" THEN <<"m1">> ELSE <<>>

\* Caches() and ThreadManager.instance(...) right after construction
MgrInit == RateInit

MgrTasks == {"A"}

MgrNext ==
    \/ /\ AddedSoFar < MaxAdds
       /\ \E n \in MgrTasks, sc \in Schedules : AddThread(n, sc, AppDeps(n))
    \/ \E m \in RegModules : RegisterModule(m)
    \/ StartWatcher
    \/ StartWatcherDone
    \/ \E f \in Paths : TouchFile(f)
    \/ \E w \in WrapperIds : RunExit(w)
    \/ \E w \in WrapperIds : RunInvoke(w)
    \/ \E w \in WrapperIds : EntryReturn(w)
    \/ \E w \in WrapperIds : EntryCrash(w)
    \/ \E w \in WrapperIds : CooldownEnd(w)
    \/ TickTod
    \/ WatchScan
    \/ WatchIter
    \/ WatcherStop
    \/ WatcherJoin
    \/ WatcherReload
    \/ WatcherInstall
    \/ WatcherStart
    \/ WatcherModules
    \/ WatcherHandled
    \/ StopAllBegin
    \/ StopAllStop
    \/ StopAllJoin
    \/ StopAllJoinWatcher

SpecMgr == MgrInit /\ [][MgrNext]_vars

\* ------------------------------------------------------------------------
\* The manager with tasks whose module_dependencies vary, each name registered
\* once as run_scan does: the reload order
\* ------------------------------------------------------------------------
DepChoices(name) ==
    IF name = "A" THEN {<<"m1", "m2">>, <<"mB", "m1">>}
    ELSE {<<>>, <<"m1">>, <<"mA">>}

ReloadNext ==
    \/ /\ AddedSoFar < MaxReloadAdds
       /\ \E n \in {x \in Tasks : threads[x] = 0} :
              \E d \in DepChoices(n) : AddThread(n, NoSchedule, d)
    \/ \E m \in RegModules : RegisterModule(m)
    \/ StartWatcher
    \/ StartWatcherDone
    \/ \E f \in Paths : TouchFile(f)
    \/ \E w \in WrapperIds : RunExit(w)
    \/ \E w \in WrapperIds : RunInvoke(w)
    \/ \E w \in WrapperIds : EntryReturn(w)
    \/ \E w \in WrapperIds : EntryCrash(w)
    \/ WatchScan
    \/ WatchIter
    \/ WatcherStop
    \/ WatcherJoin
    \/ WatcherReload
    \/ WatcherInstall
    \/ WatcherStart
    \/ WatcherModules
    \/ WatcherHandled

SpecReload == MgrInit /\ [][ReloadNext]_vars

\* ------------------------------------------------------------------------
\* The manager when run_scan runs a second time (the ScannerParent task of
\* start_scanner is restarted after a change of scanner.py, and run_scan calls
\* add_thread again under the names it used the first time)
\* ------------------------------------------------------------------------
MaxRunScans == 2    \* runs of run_scan, each adding the task once

RunScanNext ==
    \/ /\ AddedSoFar < MaxRunScans
       /\ \E n \in MgrTasks, sc \in Schedules : AddThread(n, sc, AppDeps(n))
    \/ \E w \in WrapperIds : RunExit(w)
    \/ \E w \in WrapperIds : RunInvoke(w)
    \/ \E w \in WrapperIds : EntryReturn(w)
    \/ \E w \in WrapperIds : EntryCrash(w)
    \/ \E w \in WrapperIds : CooldownEnd(w)
    \/ TickTod
    \/ StopAllBegin
    \/ StopAllStop
    \/ StopAllJoin
    \/ StopAllJoinWatcher

SpecRunScan == MgrInit /\ [][RunScanNext]_vars

\* ------------------------------------------------------------------------
\* The manager left to run, no stop_all: every thread that can take a step
\* eventually takes it, an entry point returns once it has been invoked, time passes
\* ------------------------------------------------------------------------
LiveIds == 1..(MaxAdds + MaxTouches)

LiveNext ==
    \/ /\ AddedSoFar < MaxAdds
       /\ \E n \in MgrTasks, sc \in Schedules : AddThread(n, sc, AppDeps(n))
    \/ \E m \in RegModules : RegisterModule(m)
    \/ StartWatcher
    \/ StartWatcherDone
    \/ \E f \in Paths : TouchFile(f)
    \/ \E w \in WrapperIds : RunExit(w)
    \/ \E w \in WrapperIds : RunInvoke(w)
    \/ \E w \in WrapperIds : EntryReturn(w)
    \/ \E w \in WrapperIds : EntryCrash(w)
    \/ \E w \in WrapperIds : CooldownEnd(w)
    \/ TickTod
    \/ WatchScan
    \/ WatchIter
    \/ WatcherStop
    \/ WatcherJoin
    \/ WatcherReload
    \/ WatcherInstall
    \/ WatcherStart
    \/ WatcherModules
    \/ WatcherHandled

LiveFairness ==
    /\ \A w \in LiveIds : WF_vars(w \in WrapperIds /\ RunExit(w))
    /\ \A w \in LiveIds : WF_vars(w \in WrapperIds /\ RunInvoke(w))
    /\ \A w \in LiveIds : WF_vars(w \in WrapperIds /\ EntryReturn(w))
    /\ \A w \in LiveIds : WF_vars(w \in WrapperIds /\ CooldownEnd(w))
    /\ WF_vars(TickTod)
    /\ WF_vars(StartWatcherDone)
    /\ WF_vars(WatchScan)
    /\ WF_vars(WatchIter)
    /\ WF_vars(WatcherStop)
    /\ WF_vars(WatcherJoin)
    /\ WF_vars(WatcherReload)
    /\ WF_vars(WatcherInstall)
    /\ WF_vars(WatcherStart)
    /\ WF_vars(WatcherModules)
    /\ WF_vars(WatcherHandled)

SpecLive == MgrInit /\ [][LiveNext]_vars /\ LiveFairness

\* ------------------------------------------------------------------------
\* Tasks that run again and again: a cooldown of two seconds without a window,
\* and a cooldown of one second in a window that stays open for two
\* ------------------------------------------------------------------------
Repeating == [win |-> NoWindow, cool |-> 2]
LongWindow == [win |-> [some |-> TRUE, start |-> 1, end |-> MaxTod], cool |-> 1]
CoolSchedules == {Repeating, LongWindow}

CoolNext ==
    \/ /\ AddedSoFar < MaxAdds
       /\ \E n \in MgrTasks, sc \in CoolSchedules : AddThread(n, sc, AppDeps(n))
    \/ \E w \in WrapperIds : RunExit(w)
    \/ \E w \in WrapperIds : RunInvoke(w)
    \/ \E w \in WrapperIds : EntryReturn(w)
    \/ \E w \in WrapperIds : EntryCrash(w)
    \/ \E w \in WrapperIds : CooldownEnd(w)
    \/ TickTod
    \/ StopAllBegin
    \/ StopAllStop
    \/ StopAllJoin
    \/ StopAllJoinWatcher

SpecCool == MgrInit /\ [][CoolNext]_vars

\* ------------------------------------------------------------------------
\* The manager with stop_all, every thread of the manager taking its steps, while
\* an entry point returns when it returns, or never
\* ------------------------------------------------------------------------
StopFairness ==
    /\ \A w \in LiveIds : WF_vars(w \in WrapperIds /\ RunExit(w))
    /\ \A w \in LiveIds : WF_vars(w \in WrapperIds /\ RunInvoke(w))
    /\ \A w \in LiveIds : WF_vars(w \in WrapperIds /\ CooldownEnd(w))
    /\ WF_vars(TickTod)
    /\ WF_vars(StartWatcherDone)
    /\ WF_vars(WatchScan)
    /\ WF_vars(WatchIter)
    /\ WF_vars(WatcherStop)
    /\ WF_vars(WatcherJoin)
    /\ WF_vars(WatcherReload)
    /\ WF_vars(WatcherInstall)
    /\ WF_vars(WatcherStart)
    /\ WF_vars(WatcherModules)
    /\ WF_vars(WatcherHandled)
    /\ WF_vars(StopAllStop)
    /\ WF_vars(StopAllJoin)
    /\ WF_vars(StopAllJoinWatcher)

SpecStop == MgrInit /\ [][MgrNext]_vars /\ StopFairness

\* ------------------------------------------------------------------------
\* run_buy_scan: the thread that runs the scan
\* ------------------------------------------------------------------------
MaxRequeues == 1    \* how many times a run puts a subject back on fetch_q
MaxClock == 2       \* poll intervals in a timed run

Inputs == {<<"T1">>, <<"T1", "T2">>}

Started == [pc |-> "top", item |-> NoItem, n |-> 0]
Exited == [pc |-> "exited", item |-> NoItem, n |-> 0]

Repeat(x, n) == [i \in 1..n |-> x]

\* threading.Semaphore.acquire proceeds while a slot is free
CanAcquireAlways(s) == TRUE
CanAcquire(s) == s > 0

\* result_q.unfinished_tasks == 0, the second half of the completion test
ResultsDoneAlways(r) == TRUE
ResultsDone(r) == r = 0

otherVars == <<cacheVars, rateVars, mgrVars, apiw>>

\* _reset_globals(), the queues, the semaphore, the workers are started
RunStart(input) ==
    /\ runner.pc = "idle"
    /\ subjects' = input
    /\ sem' = ApiSemaphoreLimit
    /\ api' = [w \in ApiWorkers |-> Started]
    /\ ana' = [w \in AnalysisWorkers |-> Started]
    /\ total_iterated' = 0
    /\ runner' = [pc |-> "feed", i |-> 1, cleared |-> FALSE]
    /\ UNCHANGED <<fetch_q, fetch_unf, result_q, result_unf, stop_event, clock, cancelAt,
                   analysed, failed, requeues, ignored, failures, resume>>
    /\ UNCHANGED otherVars

\* for t in filtered_tickers: fetch_q.put(t)
Feed ==
    /\ runner.pc = "feed"
    /\ IF runner.i > Len(subjects)
       THEN /\ runner' = [runner EXCEPT !.pc = "poll", !.i = 0]
            /\ UNCHANGED <<fetch_q, fetch_unf>>
       ELSE /\ fetch_q' = Append(fetch_q, subjects[runner.i])
            /\ fetch_unf' = fetch_unf + 1
            /\ runner' = [runner EXCEPT !.i = @ + 1]
    /\ UNCHANGED <<subjects, result_q, result_unf, sem, api, ana, stop_event, clock,
                   cancelAt, analysed, failed, requeues, total_iterated, ignored,
                   failures, resume>>
    /\ UNCHANGED otherVars

\* while not stop_event.is_set(): if fetch_q.unfinished_tasks == 0 and ...
PollFetch ==
    /\ runner.pc = "poll"
    /\ runner' = [runner EXCEPT !.pc = IF stop_event THEN "after_poll"
                                       ELSE IF fetch_unf = 0 THEN "poll_result"
                                       ELSE "sleep"]
    /\ UNCHANGED <<subjects, fetch_q, fetch_unf, result_q, result_unf, sem, api, ana,
                   stop_event, clock, cancelAt, analysed, failed, requeues, total_iterated,
                   ignored, failures, resume>>
    /\ UNCHANGED otherVars

\* ... and result_q.unfinished_tasks == 0: break
PollResult ==
    /\ runner.pc = "poll_result"
    /\ runner' = [runner EXCEPT !.pc = IF ResultsDone(result_unf) THEN "after_poll"
                                       ELSE "sleep"]
    /\ UNCHANGED <<subjects, fetch_q, fetch_unf, result_q, result_unf, sem, api, ana,
                   stop_event, clock, cancelAt, analysed, failed, requeues, total_iterated,
                   ignored, failures, resume>>
    /\ UNCHANGED otherVars

\* stop_event.wait(0.5) returns at once when the event is set
PollWakeOnStop ==
    /\ runner.pc = "sleep" /\ stop_event
    /\ runner' = [runner EXCEPT !.pc = "poll"]
    /\ UNCHANGED <<subjects, fetch_q, fetch_unf, result_q, result_unf, sem, api, ana,
                   stop_event, clock, cancelAt, analysed, failed, requeues, total_iterated,
                   ignored, failures, resume>>
    /\ UNCHANGED otherVars

\* stop_event.wait(0.5) timed out
PollWake ==
    /\ runner.pc = "sleep"
    /\ runner' = [runner EXCEPT !.pc = "poll"]
    /\ UNCHANGED <<subjects, fetch_q, fetch_unf, result_q, result_unf, sem, api, ana,
                   stop_event, clock, cancelAt, analysed, failed, requeues, total_iterated,
                   ignored, failures, resume>>
    /\ UNCHANGED otherVars

\* if stop_event.is_set(): flush the queues
AfterPoll ==
    /\ runner.pc = "after_poll"
    /\ runner' = [runner EXCEPT !.pc = IF stop_event THEN "drain_fetch" ELSE "sentinels"]
    /\ UNCHANGED <<subjects, fetch_q, fetch_unf, result_q, result_unf, sem, api, ana,
                   stop_event, clock, cancelAt, analysed, failed, requeues, total_iterated,
                   ignored, failures, resume>>
    /\ UNCHANGED otherVars

\* while not fetch_q.empty(): fetch_q.get_nowait(); fetch_q.task_done()
DrainFetch ==
    /\ runner.pc = "drain_fetch"
    /\ IF fetch_q = <<>>
       THEN /\ runner' = [runner EXCEPT !.pc = "drain_result"]
            /\ UNCHANGED <<fetch_q, fetch_unf>>
       ELSE /\ fetch_q' = Tail(fetch_q)
            /\ fetch_unf' = fetch_unf - 1
            /\ UNCHANGED runner
    /\ UNCHANGED <<subjects, result_q, result_unf, sem, api, ana, stop_event, clock,
                   cancelAt, analysed, failed, requeues, total_iterated, ignored,
                   failures, resume>>
    /\ UNCHANGED otherVars

\* while not result_q.empty(): result_q.get_nowait(); result_q.task_done()
DrainResult ==
    /\ runner.pc = "drain_result"
    /\ IF result_q = <<>>
       THEN /\ runner' = [runner EXCEPT !.pc = "sentinels"]
            /\ UNCHANGED <<result_q, result_unf>>
       ELSE /\ result_q' = Tail(result_q)
            /\ result_unf' = result_unf - 1
            /\ UNCHANGED runner
    /\ UNCHANGED <<subjects, fetch_q, fetch_unf, sem, api, ana, stop_event, clock,
                   cancelAt, analysed, failed, requeues, total_iterated, ignored,
                   failures, resume>>
    /\ UNCHANGED otherVars

\* for _ in api_threads: fetch_q.put(None); for _ in analysis_threads: result_q.put(None)
Sentinels ==
    /\ runner.pc = "sentinels"
    /\ fetch_q' = fetch_q \o Repeat(Sentinel, Cardinality(ApiWorkers))
    /\ fetch_unf' = fetch_unf + Cardinality(ApiWorkers)
    /\ result_q' = result_q \o Repeat([ticker |-> Sentinel, options |-> FALSE],
                                      Cardinality(AnalysisWorkers))
    /\ result_unf' = result_unf + Cardinality(AnalysisWorkers)
    /\ runner' = [runner EXCEPT !.pc = "join", !.i = 1]
    /\ UNCHANGED <<subjects, sem, api, ana, stop_event, clock, cancelAt, analysed, failed,
                   requeues, total_iterated, ignored, failures, resume>>
    /\ UNCHANGED otherVars

WorkerExited(name) ==
    IF name \in ApiWorkers THEN api[name].pc = "exited" ELSE ana[name].pc = "exited"

\* for t in api_threads + analysis_threads: t.join(timeout=2), the thread has ended
JoinWorker ==
    /\ runner.pc = "join"
    /\ runner.i <= Len(WorkerOrder)
    /\ WorkerExited(WorkerOrder[runner.i])
    /\ runner' = [runner EXCEPT !.i = @ + 1]
    /\ UNCHANGED <<subjects, fetch_q, fetch_unf, result_q, result_unf, sem, api, ana,
                   stop_event, clock, cancelAt, analysed, failed, requeues, total_iterated,
                   ignored, failures, resume>>
    /\ UNCHANGED otherVars

\* t.join(timeout=2), the two seconds have passed
JoinTimeout ==
    /\ runner.pc = "join"
    /\ runner.i <= Len(WorkerOrder)
    /\ ~WorkerExited(WorkerOrder[runner.i])
    /\ runner' = [runner EXCEPT !.i = @ + 1]
    /\ UNCHANGED <<subjects, fetch_q, fetch_unf, result_q, result_unf, sem, api, ana,
                   stop_event, clock, cancelAt, analysed, failed, requeues, total_iterated,
                   ignored, failures, resume>>
    /\ UNCHANGED otherVars

\* post_process_results, the last_ticker_cache is cleared when every subject was
\* counted, the run returns
RunReturn ==
    /\ runner.pc = "join"
    /\ runner.i > Len(WorkerOrder)
    /\ runner' = [pc |-> "returned", i |-> 0,
                  cleared |-> (total_iterated = Len(subjects))]
    /\ resume' = IF total_iterated = Len(subjects)
                 THEN [resume EXCEPT !.last_seen = NoTicker]
                 ELSE resume
    /\ UNCHANGED <<subjects, fetch_q, fetch_unf, result_q, result_unf, sem, api, ana,
                   stop_event, clock, cancelAt, analysed, failed, requeues, total_iterated,
                   ignored, failures>>
    /\ UNCHANGED otherVars

\* somebody sets the stop_event while the run is in progress
Cancel ==
    /\ runner.pc \notin {"idle", "returned"}
    /\ ~stop_event
    /\ stop_event' = TRUE
    /\ cancelAt' = clock
    /\ UNCHANGED <<subjects, fetch_q, fetch_unf, result_q, result_unf, sem, api, ana,
                   runner, clock, analysed, failed, requeues, total_iterated, ignored,
                   failures, resume>>
    /\ UNCHANGED otherVars

\* ------------------------------------------------------------------------
\* api_worker
\* ------------------------------------------------------------------------
\* fetch_q.get returned an item: the sentinel ends the worker, a subject is fetched
ApiTake(w) ==
    /\ fetch_q' = Tail(fetch_q)
    /\ IF Head(fetch_q) = Sentinel
       THEN /\ fetch_unf' = fetch_unf - 1
            /\ api' = [api EXCEPT ![w] = Exited]
       ELSE /\ api' = [api EXCEPT ![w] = [pc |-> "acquire", n |-> 0,
                                           item |-> [ticker |-> Head(fetch_q),
                                                     options |-> FALSE]]]
            /\ UNCHANGED fetch_unf

\* while not stop_evt.is_set(): ticker = fetch_q.get(timeout=0.5)
ApiTop(w) ==
    /\ api[w].pc = "top"
    /\ IF stop_event
       THEN /\ api' = [api EXCEPT ![w] = Exited]
            /\ UNCHANGED <<fetch_q, fetch_unf>>
       ELSE IF fetch_q # <<>>
            THEN ApiTake(w)
            ELSE /\ api' = [api EXCEPT ![w].pc = "waiting"]
                 /\ UNCHANGED <<fetch_q, fetch_unf>>
    /\ UNCHANGED <<subjects, result_q, result_unf, sem, ana, runner, stop_event, clock,
                   cancelAt, analysed, failed, requeues, total_iterated, ignored,
                   failures, resume>>
    /\ UNCHANGED otherVars

\* an item arrives while the worker waits inside get
ApiWake(w) ==
    /\ api[w].pc = "waiting"
    /\ fetch_q # <<>>
    /\ ApiTake(w)
    /\ UNCHANGED <<subjects, result_q, result_unf, sem, ana, runner, stop_event, clock,
                   cancelAt, analysed, failed, requeues, total_iterated, ignored,
                   failures, resume>>
    /\ UNCHANGED otherVars

\* except queue.Empty: continue
ApiTimeout(w) ==
    /\ api[w].pc = "waiting"
    /\ api' = [api EXCEPT ![w].pc = "top"]
    /\ UNCHANGED <<subjects, fetch_q, fetch_unf, result_q, result_unf, sem, ana, runner,
                   stop_event, clock, cancelAt, analysed, failed, requeues, total_iterated,
                   ignored, failures, resume>>
    /\ UNCHANGED otherVars

\* with api_semaphore: consumer.get_option_chain(ticker) is entered
ApiAcquire(w) ==
    /\ api[w].pc = "acquire"
    /\ CanAcquire(sem)
    /\ sem' = sem - 1
    /\ api' = [api EXCEPT ![w].pc = "fetching"]
    /\ UNCHANGED <<subjects, fetch_q, fetch_unf, result_q, result_unf, ana, runner,
                   stop_event, clock, cancelAt, analysed, failed, requeues, total_iterated,
                   ignored, failures, resume>>
    /\ UNCHANGED otherVars

\* get_option_chain returned: result_q.put((ticker, options))
FetchOk(w) ==
    /\ api[w].pc = "fetching"
    /\ result_q' = Append(result_q, [ticker |-> api[w].item.ticker, options |-> TRUE])
    /\ result_unf' = result_unf + 1
    /\ api' = [api EXCEPT ![w].pc = "finally"]
    /\ UNCHANGED <<subjects, fetch_q, fetch_unf, sem, ana, runner, stop_event, clock,
                   cancelAt, analysed, failed, requeues, total_iterated, ignored,
                   failures, resume>>
    /\ UNCHANGED otherVars

\* except TimeoutError: fetch_q.put(ticker)
FetchTimeout(w) ==
    /\ api[w].pc = "fetching"
    /\ requeues < MaxRequeues
    /\ fetch_q' = Append(fetch_q, api[w].item.ticker)
    /\ fetch_unf' = fetch_unf + 1
    /\ requeues' = requeues + 1
    /\ failed' = TRUE
    /\ failures' = failures \cup {api[w].item.ticker}
    /\ api' = [api EXCEPT ![w].pc = "finally"]
    /\ UNCHANGED <<subjects, result_q, result_unf, sem, ana, runner, stop_event, clock,
                   cancelAt, analysed, total_iterated, ignored, resume>>
    /\ UNCHANGED otherVars

\* threading.Thread(target=api_worker, args=(stop_event, None)): the ignore_cache
\* parameter of every fetch worker is None
ApiIgnoreCacheGiven == FALSE

\* except NoExpiryError / InvalidSymbolError / NoOptionsError:
\* if ignore_cache is not None: ignore_cache.add(ticker, error)
FetchRejected(w) ==
    /\ api[w].pc = "fetching"
    /\ failed' = TRUE
    /\ failures' = failures \cup {api[w].item.ticker}
    /\ ignored' = IF ApiIgnoreCacheGiven THEN ignored \cup {api[w].item.ticker} ELSE ignored
    /\ api' = [api EXCEPT ![w].pc = "finally"]
    /\ UNCHANGED <<subjects, fetch_q, fetch_unf, result_q, result_unf, sem, ana, runner,
                   stop_event, clock, cancelAt, analysed, requeues, total_iterated,
                   resume>>
    /\ UNCHANGED otherVars

\* except TokenExpiredError: token_status.wait_until_valid(check_interval=30)
FetchTokenExpired(w) ==
    /\ api[w].pc = "fetching"
    /\ failed' = TRUE
    /\ failures' = failures \cup {api[w].item.ticker}
    /\ api' = [api EXCEPT ![w].pc = "token_wait"]
    /\ UNCHANGED <<subjects, fetch_q, fetch_unf, result_q, result_unf, sem, ana, runner,
                   stop_event, clock, cancelAt, analysed, requeues, total_iterated,
                   ignored, resume>>
    /\ UNCHANGED otherVars

\* the token is valid again: consumer.load_tokens(generate_new_token=False).
\* EtradeConsumer.load_tokens(self, open_browser=True) has no such parameter,
\* so the call raises TypeError inside the except clause: fetch_q.put(ticker)
\* of the next line is not reached and the exception leaves the handler
TokenRestored(w) ==
    /\ api[w].pc = "token_wait"
    /\ api' = [api EXCEPT ![w].pc = "raising"]
    /\ UNCHANGED <<subjects, fetch_q, fetch_unf, result_q, result_unf, sem, ana, runner,
                   stop_event, clock, cancelAt, analysed, failed, requeues, total_iterated,
                   ignored, failures, resume>>
    /\ UNCHANGED otherVars

\* except Exception: result_q.put((ticker, None))
FetchError(w) ==
    /\ api[w].pc = "fetching"
    /\ result_q' = Append(result_q, [ticker |-> api[w].item.ticker, options |-> FALSE])
    /\ result_unf' = result_unf + 1
    /\ failed' = TRUE
    /\ failures' = failures \cup {api[w].item.ticker}
    /\ api' = [api EXCEPT ![w].pc = "finally"]
    /\ UNCHANGED <<subjects, fetch_q, fetch_unf, sem, ana, runner, stop_event, clock,
                   cancelAt, analysed, requeues, total_iterated, ignored, resume>>
    /\ UNCHANGED otherVars

\* finally: fetch_q.task_done(); the with block releases the semaphore; an
\* exception raised by a handler then leaves api_worker and ends its thread
ApiFinally(w) ==
    /\ api[w].pc \in {"finally", "raising"}
    /\ fetch_unf' = fetch_unf - 1
    /\ sem' = sem + 1
    /\ api' = [api EXCEPT ![w] = IF api[w].pc = "raising" THEN Exited ELSE Started]
    /\ UNCHANGED <<subjects, fetch_q, result_q, result_unf, ana, runner, stop_event, clock,
                   cancelAt, analysed, failed, requeues, total_iterated, ignored,
                   failures, resume>>
    /\ UNCHANGED otherVars

\* ------------------------------------------------------------------------
\* analysis_worker
\* ------------------------------------------------------------------------
AnaTake(w) ==
    /\ result_q' = Tail(result_q)
    /\ IF Head(result_q).ticker = Sentinel
       THEN /\ result_unf' = result_unf - 1
            /\ ana' = [ana EXCEPT ![w] = Exited]
       ELSE /\ ana' = [ana EXCEPT ![w] = [pc |-> "count_load", n |-> 0,
                                           item |-> Head(result_q)]]
            /\ UNCHANGED result_unf

\* while not stop_evt.is_set(): item = result_q.get(timeout=0.5)
AnaTop(w) ==
    /\ ana[w].pc = "top"
    /\ IF stop_event
       THEN /\ ana' = [ana EXCEPT ![w] = Exited]
            /\ UNCHANGED <<result_q, result_unf>>
       ELSE IF result_q # <<>>
            THEN AnaTake(w)
            ELSE /\ ana' = [ana EXCEPT ![w].pc = "waiting"]
                 /\ UNCHANGED <<result_q, result_unf>>
    /\ UNCHANGED <<subjects, fetch_q, fetch_unf, sem, api, runner, stop_event, clock,
                   cancelAt, analysed, failed, requeues, total_iterated, ignored,
                   failures, resume>>
    /\ UNCHANGED otherVars

AnaWake(w) ==
    /\ ana[w].pc = "waiting"
    /\ result_q # <<>>
    /\ AnaTake(w)
    /\ UNCHANGED <<subjects, fetch_q, fetch_unf, sem, api, runner, stop_event, clock,
                   cancelAt, analysed, failed, requeues, total_iterated, ignored,
                   failures, resume>>
    /\ UNCHANGED otherVars

AnaTimeout(w) ==
    /\ ana[w].pc = "waiting"
    /\ ana' = [ana EXCEPT ![w].pc = "top"]
    /\ UNCHANGED <<subjects, fetch_q, fetch_unf, result_q, result_unf, sem, api, runner,
                   stop_event, clock, cancelAt, analysed, failed, requeues, total_iterated,
                   ignored, failures, resume>>
    /\ UNCHANGED otherVars

\* total_iterated += 1, the read of the global
AnaCountLoad(w) ==
    /\ ana[w].pc = "count_load"
    /\ ana' = [ana EXCEPT ![w].pc = "count_store", ![w].n = total_iterated]
    /\ UNCHANGED <<subjects, fetch_q, fetch_unf, result_q, result_unf, sem, api, runner,
                   stop_event, clock, cancelAt, analysed, failed, requeues, total_iterated,
                   ignored, failures, resume>>
    /\ UNCHANGED otherVars

\* total_iterated += 1, the write; an item without options is logged and done
AnaCountStore(w) ==
    /\ ana[w].pc = "count_store"
    /\ total_iterated' = ana[w].n + 1
    /\ IF ana[w].item.options
       THEN /\ ana' = [ana EXCEPT ![w].pc = "analysing", ![w].n = 0]
            /\ UNCHANGED result_unf
       ELSE /\ ana' = [ana EXCEPT ![w] = Started]
            /\ result_unf' = result_unf - 1
    /\ UNCHANGED <<subjects, fetch_q, fetch_unf, result_q, sem, api, runner, stop_event,
                   clock, cancelAt, analysed, failed, requeues, ignored, failures,
                   resume>>
    /\ UNCHANGED otherVars

\* analyze_ticker returned: the outcome of the subject is recorded; task_done.
\* processed_counter += 1; if processed_counter % 5 == 0:
\* last_ticker_cache.add("lastSeen", ticker).  The counter is a global of the
\* module that no run resets, so any subject of a run may be the fifth.
AnalyzeOk(w) ==
    /\ ana[w].pc = "analysing"
    /\ analysed' = [analysed EXCEPT ![ana[w].item.ticker] = @ + 1]
    /\ result_unf' = result_unf - 1
    /\ ana' = [ana EXCEPT ![w] = Started]
    /\ \E fifth \in BOOLEAN :
           resume' = IF fifth THEN [resume EXCEPT !.last_seen = ana[w].item.ticker]
                     ELSE resume
    /\ UNCHANGED <<subjects, fetch_q, fetch_unf, result_q, sem, api, runner, stop_event,
                   clock, cancelAt, failed, requeues, total_iterated, ignored,
                   failures>>
    /\ UNCHANGED otherVars

\* except YFTooManyAttempts: fetch_q.put(ticker); task_done
AnalyzeRequeue(w) ==
    /\ ana[w].pc = "analysing"
    /\ requeues < MaxRequeues
    /\ fetch_q' = Append(fetch_q, ana[w].item.ticker)
    /\ fetch_unf' = fetch_unf + 1
    /\ requeues' = requeues + 1
    /\ failed' = TRUE
    /\ failures' = failures \cup {ana[w].item.ticker}
    /\ result_unf' = result_unf - 1
    /\ ana' = [ana EXCEPT ![w] = Started]
    /\ UNCHANGED <<subjects, result_q, sem, api, runner, stop_event, clock, cancelAt,
                   analysed, total_iterated, ignored, resume>>
    /\ UNCHANGED otherVars

\* except Exception: logged; task_done
AnalyzeError(w) ==
    /\ ana[w].pc = "analysing"
    /\ failed' = TRUE
    /\ failures' = failures \cup {ana[w].item.ticker}
    /\ result_unf' = result_unf - 1
    /\ ana' = [ana EXCEPT ![w] = Started]
    /\ UNCHANGED <<subjects, fetch_q, fetch_unf, result_q, sem, api, runner, stop_event,
                   clock, cancelAt, analysed, requeues, total_iterated, ignored,
                   resume>>
    /\ UNCHANGED otherVars

\* ------------------------------------------------------------------------
\* Time: one poll interval (0.5 s) passes.  Steps that wait for nothing are taken
\* before it does; calls to the outside (the fetch, the token wait, the analysis)
\* last as long as they last.
\* ------------------------------------------------------------------------
ApiReady(w) ==
    \/ api[w].pc \in {"top", "finally", "raising"}
    \/ api[w].pc = "waiting" /\ fetch_q # <<>>
    \/ api[w].pc = "acquire" /\ CanAcquire(sem)

AnaReady(w) ==
    \/ ana[w].pc \in {"top", "count_load", "count_store"}
    \/ ana[w].pc = "waiting" /\ result_q # <<>>

RunnerReady ==
    \/ runner.pc \in {"feed", "poll", "poll_result", "after_poll", "drain_fetch",
                      "drain_result", "sentinels"}
    \/ runner.pc = "sleep" /\ stop_event
    \/ runner.pc = "join" /\ runner.i <= Len(WorkerOrder)
                          /\ WorkerExited(WorkerOrder[runner.i])

PollTick ==
    /\ clock < MaxClock
    /\ ~RunnerReady
    /\ \A w \in ApiWorkers : ~ApiReady(w)
    /\ \A w \in AnalysisWorkers : ~AnaReady(w)
    /\ clock' = clock + 1
    /\ api' = [w \in ApiWorkers |->
                 IF api[w].pc = "waiting" THEN [api[w] EXCEPT !.pc = "top"] ELSE api[w]]
    /\ ana' = [w \in AnalysisWorkers |->
                 IF ana[w].pc = "waiting" THEN [ana[w] EXCEPT !.pc = "top"] ELSE ana[w]]
    /\ runner' = IF runner.pc = "sleep" THEN [runner EXCEPT !.pc = "poll"] ELSE runner
    /\ UNCHANGED <<subjects, fetch_q, fetch_unf, result_q, result_unf, sem, stop_event,
                   cancelAt, analysed, failed, requeues, total_iterated, ignored,
                   failures, resume>>
    /\ UNCHANGED otherVars

\* ------------------------------------------------------------------------
\* One pipeline run that nobody cancels, every interleaving of its threads
\* ------------------------------------------------------------------------
PipeInit == RateInit

PipeSteps ==
    \/ \E input \in Inputs : RunStart(input)
    \/ Feed
    \/ PollFetch
    \/ PollResult
    \/ AfterPoll
    \/ Sentinels
    \/ JoinWorker
    \/ JoinTimeout
    \/ RunReturn
    \/ \E w \in ApiWorkers : ApiTop(w)
    \/ \E w \in ApiWorkers : ApiWake(w)
    \/ \E w \in ApiWorkers : ApiAcquire(w)
    \/ \E w \in ApiWorkers : FetchOk(w)
    \/ \E w \in ApiWorkers : ApiFinally(w)
    \/ \E w \in AnalysisWorkers : AnaTop(w)
    \/ \E w \in AnalysisWorkers : AnaWake(w)
    \/ \E w \in AnalysisWorkers : AnaCountLoad(w)
    \/ \E w \in AnalysisWorkers : AnaCountStore(w)
    \/ \E w \in AnalysisWorkers : AnalyzeOk(w)

\* a fetch or an analysis fails
PipeFailures ==
    \/ \E w \in ApiWorkers : FetchTimeout(w)
    \/ \E w \in ApiWorkers : FetchRejected(w)
    \/ \E w \in ApiWorkers : FetchTokenExpired(w)
    \/ \E w \in ApiWorkers : TokenRestored(w)
    \/ \E w \in ApiWorkers : FetchError(w)
    \/ \E w \in AnalysisWorkers : AnalyzeRequeue(w)
    \/ \E w \in AnalysisWorkers : AnalyzeError(w)

\* untimed: a wait with a timeout may end at any moment
PipeNext ==
    \/ PipeSteps
    \/ PipeFailures
    \/ PollWake
    \/ \E w \in ApiWorkers : ApiTimeout(w)
    \/ \E w \in AnalysisWorkers : AnaTimeout(w)

SpecPipe == PipeInit /\ [][PipeNext]_vars

\* ------------------------------------------------------------------------
\* run_buy_scan: where a run resumes in the listing of active tickers
\* ------------------------------------------------------------------------
ListedTickers == {"T1", "T2", "T3", "T4"}

\* list(tickers_map): the keys of a dict, each once, in the order of the dict;
\* an empty listing ends the run before the resume point is computed
Listings ==
    UNION {{l \in [1..n -> ListedTickers] : \A i, j \in 1..n : l[i] = l[j] => i = j} :
             n \in 1..Cardinality(ListedTickers)}

\* last_ticker_cache.get("lastSeen"): a ticker, or None
LastSeens == ListedTickers \cup {NoTicker}

\* ticker_keys.index(last_seen), counted from 0
IndexOf(ticker_keys, t) ==
    (CHOOSE i \in 1..Len(ticker_keys) :
        ticker_keys[i] = t /\ \A j \in 1..(i - 1) : ticker_keys[j] # t) - 1

\* start_index = 0
\* if last_seen and last_seen in ticker_keys: start_index = index(last_seen) + 1
\* if start_index >= len(ticker_keys) - 1: start_index = 0
StartIndex(ticker_keys, last_seen) ==
    LET found == IF /\ last_seen # NoTicker
                    /\ \E i \in 1..Len(ticker_keys) : ticker_keys[i] = last_seen
                 THEN IndexOf(ticker_keys, last_seen) + 1
                 ELSE 0
    IN  IF found >= Len(ticker_keys) - 1 THEN 0 ELSE found

\* remaining_tickers = ticker_keys[start_index:]
RemainingTickers(ticker_keys, start_index) ==
    SubSeq(ticker_keys, start_index + 1, Len(ticker_keys))

\* a run reads the listing and the recorded ticker and finds where to start
ReadListing(ticker_keys, last_seen) ==
    /\ resume' = [ticker_keys |-> ticker_keys, last_seen |-> last_seen,
                  start_index |-> StartIndex(ticker_keys, last_seen),
                  remaining_tickers |->
                      RemainingTickers(ticker_keys, StartIndex(ticker_keys, last_seen))]
    /\ UNCHANGED <<subjects, fetch_q, fetch_unf, result_q, result_unf, sem, api, ana,
                   runner, stop_event, clock, cancelAt, analysed, failed, requeues,
                   total_iterated, ignored, failures>>
    /\ UNCHANGED otherVars

ResumeNext == \E ticker_keys \in Listings, last_seen \in LastSeens :
                  ReadListing(ticker_keys, last_seen)

SpecResume == PipeInit /\ [][ResumeNext]_vars

\* a run in which the only failures are the retryable ones (the fetch times out,
\* the analysis meets the provider's rate limit), nobody cancels, and every
\* worker ends within the two seconds of its join
RetryNext ==
    \/ \E input \in Inputs : RunStart(input)
    \/ Feed
    \/ PollFetch
    \/ PollResult
    \/ PollWake
    \/ AfterPoll
    \/ Sentinels
    \/ JoinWorker
    \/ RunReturn
    \/ \E w \in ApiWorkers : ApiTop(w)
    \/ \E w \in ApiWorkers : ApiWake(w)
    \/ \E w \in ApiWorkers : ApiTimeout(w)
    \/ \E w \in ApiWorkers : ApiAcquire(w)
    \/ \E w \in ApiWorkers : FetchOk(w)
    \/ \E w \in ApiWorkers : FetchTimeout(w)
    \/ \E w \in ApiWorkers : ApiFinally(w)
    \/ \E w \in AnalysisWorkers : AnaTop(w)
    \/ \E w \in AnalysisWorkers : AnaWake(w)
    \/ \E w \in AnalysisWorkers : AnaTimeout(w)
    \/ \E w \in AnalysisWorkers : AnaCountLoad(w)
    \/ \E w \in AnalysisWorkers : AnaCountStore(w)
    \/ \E w \in AnalysisWorkers : AnalyzeOk(w)
    \/ \E w \in AnalysisWorkers : AnalyzeRequeue(w)

SpecRetry == PipeInit /\ [][RetryNext]_vars

\* timed, and the stop_event may be set at any moment of a run whose fetches and
\* analyses succeed: a wait with a timeout ends when the event is set or the
\* poll interval has passed
CancelNext ==
    \/ PipeSteps
    \/ Cancel
    \/ PollWakeOnStop
    \/ DrainFetch
    \/ DrainResult
    \/ PollTick

SpecCancel == PipeInit /\ [][CancelNext]_vars

\* ------------------------------------------------------------------------
\* Claims about the cache
\* ------------------------------------------------------------------------
HasTupleKey(v) == v.kind = "dict" /\ \E e \in v.items : e.key.tuple

\* what get() hands back for EvalResult: the tuple key unfolded into nested dicts
NestedEvalResult ==
    DictVal({[key |-> PlainKey("PrimaryStrategy"),
              val |-> DictVal({[key |-> PlainKey("Result"), val |-> Scalar("a")]})]})

\* the last call was a get(k) made at the instant of an add(k, v) nothing followed
GetRightAfterAdd ==
    /\ ret.op = "get"
    /\ recent.key = ret.key
    /\ recent.at = ret.at

\* the last call was a read of a key whose last add is more than the TTL old
ReadAfterTtl ==
    /\ ret.op \in {"get", "is_cached"}
    /\ lastAddT[ret.key] >= 0
    /\ ret.at - lastAddT[ret.key] > Ttl

\* C1 as stated: Add(k,v) followed immediately by Get(k) returns v, found, for
\* every value v; a Get or IsCached made once the TTL has passed since the last
\* Add(k) reports not-found.
C1_AddGetReturnsValue ==
    /\ GetRightAfterAdd => (ret.hit /\ ret.val = recent.val)
    /\ ReadAfterTtl => ~ret.hit

\* C1 amended: Add(k,v) followed immediately by Get(k) returns the stored form of
\* v: v itself unless v is a dict with tuple keys, whose tuple keys are unfolded
\* into nested dicts; the result is distinguishable from not-found exactly when
\* v is not None.  A Get or IsCached made once the TTL has passed since the last
\* Add(k) reports not-found.
C1_AddGetReturnsStored ==
    /\ GetRightAfterAdd =>
          /\ ret.hit <=> (recent.val # NoneVal)
          /\ ~HasTupleKey(recent.val) => ret.val = recent.val
          /\ recent.val = EvalResult => ret.val = NestedEvalResult
    /\ ReadAfterTtl => ~ret.hit

\* a get right after add(k, EvalResult) hit, while the other key's entry, added
\* more than a TTL ago, has been evicted by a read
C1_Witness ==
    /\ GetRightAfterAdd /\ ret.hit /\ recent.val = EvalResult
    /\ \E k \in Keys : /\ k # ret.key
                       /\ lastAddT[k] >= 0
                       /\ now - lastAddT[k] > Ttl
                       /\ cache[k] = NoEntry

\* C2: once a Save has completed, the destination file is at every later point
\* (during later Saves, failed Saves and kills) the complete output of the most
\* recently completed Save, and the Load of a restarted process reads exactly the
\* unexpired rows of that output.
C2_AtomicSave ==
    /\ saved.done => file = CompleteFile(saved.data)
    /\ (saved.done /\ ret.op = "load_boot") => cache = LoadedMap(EmptyMap, saved.data, ret.at)

\* the process was killed between the temporary file's write and the rename, was
\* restarted, and loaded an entry from the previous Save's output
C2_Witness ==
    /\ crash = "mid_save"
    /\ boot = "up"
    /\ ret.op = "load_boot"
    /\ saved.done
    /\ \E k \in Keys : cache[k] # NoEntry

\* ------------------------------------------------------------------------
\* Claims about the rate limiter
\* ------------------------------------------------------------------------
\* C7: after MarkLimited(P, r) at time t, a pre-check of P made before t + r
\* reports limited (the call is skipped) and a pre-check made at or after t + r
\* reports not limited (the call proceeds), for every caller that gates on the
\* rate-limit cache.
C7_RateLimitRespected ==
    (gate.caller # "none" /\ marks[gate.provider].at >= 0
        /\ gate.at >= marks[gate.provider].at)
    => (gate.limited <=> gate.at < marks[gate.provider].at + marks[gate.provider].r)

\* ------------------------------------------------------------------------
\* Claims about the thread manager
\* ------------------------------------------------------------------------
\* C3: a task with a schedule window [start, end] has its entry point invoked
\* only at a time of day inside the window, whenever it was registered or reloaded.
C3_InvokedInsideWindow ==
    \A w \in WrapperIds :
        (wrappers[w].win.some /\ wrappers[w].pc = "running")
            => /\ wrappers[w].win.start <= wrappers[w].invokedAt
               /\ wrappers[w].invokedAt <= wrappers[w].win.end

\* C4: the wrapper a hot reload creates exists only once the wrapper it replaces
\* has terminated, so (each task name being registered once) no two runs of one
\* task name are alive at the same time.
C4_ReloadStopsPrevious ==
    /\ \A w \in WrapperIds :
           wrappers[w].prev # 0 => wrappers[wrappers[w].prev].pc = "done"
    /\ ~dupAdd =>
           \A v, w \in WrapperIds :
               (v # w /\ wrappers[v].name = wrappers[w].name) => ~(Alive(v) /\ Alive(w))

\* the reloaded entry point is running: its wrapper replaced one created by add_thread
C4_Witness ==
    \E w \in WrapperIds :
        /\ wrappers[w].prev # 0
        /\ wrappers[w].pc = "running"
        /\ wrappers[wrappers[w].prev].prev = 0
        /\ lastReload.task = wrappers[w].name

\* C8: when stop_all has returned, every task of the task table and the watcher
\* have terminated (so no run of a managed task begins afterwards), also when the
\* watcher was handling a file change meanwhile.
C8_StopAllTerminatesAll ==
    main.pc = "returned" =>
        /\ \A n \in Tasks : threads[n] # 0 => wrappers[threads[n]].pc = "done"
        /\ watcher.pc \in {"none", "done"}

\* position of the first reload of module m in a reload log (0: never reloaded)
Pos(log, m) ==
    IF \E i \in 1..Len(log) : log[i] = m
    THEN CHOOSE i \in 1..Len(log) : log[i] = m /\ \A j \in 1..(i - 1) : log[j] # m
    ELSE 0

\* a list without its repetitions, first occurrences kept
RECURSIVE Dedup(_, _)
Dedup(list, had) ==
    IF list = <<>> THEN <<>>
    ELSE IF Head(list) \in had THEN Dedup(Tail(list), had)
    ELSE <<Head(list)>> \o Dedup(Tail(list), had \cup {Head(list)})

\* C10 as stated: on a reload of task A every listed dependency is reloaded before
\* A's own module and before the entry point is looked up again, and the
\* dependencies are reloaded in the order in which they are listed.
C10_ListedOrder ==
    lastReload.task # "" =>
        LET log == lastReload.log
            deps == lastReload.deps
        IN  /\ \A i \in 1..Len(deps) :
                   /\ Pos(log, deps[i]) > 0
                   /\ Pos(log, deps[i]) < Pos(log, lastReload.own)
                   /\ Pos(log, deps[i]) < Pos(log, "resolve")
            /\ \A i, j \in 1..Len(deps) :
                   (i < j /\ deps[i] # deps[j]) => Pos(log, deps[i]) < Pos(log, deps[j])

\* C10 amended: every listed dependency and A's own module are reloaded before the
\* entry point is looked up again; a dependency that is not the module of a
\* registered task with dependencies of its own is reloaded before A's own module;
\* and when every dependency is of that kind the reloads are exactly the listed
\* dependencies in listed order, then A's own module.
C10_DependenciesFirst ==
    lastReload.task # "" =>
        LET log == lastReload.log
            deps == lastReload.deps
        IN  /\ log[Len(log)] = "resolve"
            /\ Pos(log, lastReload.own) \in 1..(Len(log) - 1)
            /\ \A i \in 1..Len(deps) : Pos(log, deps[i]) \in 1..(Len(log) - 1)
            /\ \A m \in lastReload.plain : Pos(log, m) < Pos(log, lastReload.own)
            /\ (\A i \in 1..Len(deps) : deps[i] \in lastReload.plain)
                   => log = Dedup(deps, {}) \o <<lastReload.own, "resolve">>

\* task A, listing two plain modules, was reloaded, while task B was registered too
C10_Witness ==
    /\ lastReload.task = "A"
    /\ lastReload.deps = <<"m1", "m2">>
    /\ lastReload.log = <<"m1", "m2", "mA", "resolve">>
    /\ threads["B"] # 0

\* ------------------------------------------------------------------------
\* Claims about the pipeline
\* ------------------------------------------------------------------------
InsideFetch == {w \in ApiWorkers : api[w].pc \in {"fetching", "token_wait", "finally", "raising"}}

\* C5: when a run in which nothing failed and nobody cancelled returns, the outcome
\* of every one of its subjects has been recorded exactly once, and no subject
\* was analysed twice at any point of such a run.
C5_PipelineCompleteness ==
    (~failed /\ ~stop_event) =>
        /\ \A t \in Tickers : analysed[t] <= 1
        /\ runner.pc = "returned" =>
               \A t \in Tickers :
                   analysed[t] = IF \E i \in 1..Len(subjects) : subjects[i] = t
                                 THEN 1 ELSE 0

\* a run of two subjects returned, complete, neither failed nor cancelled
C5_Witness ==
    /\ runner.pc = "returned"
    /\ ~failed /\ ~stop_event
    /\ Len(subjects) = 2
    /\ \A t \in Tickers : analysed[t] = 1

\* C6: the fetch workers that hold a slot of the semaphore (inside the external
\* fetch call) are never more than the semaphore's initial count.
C6_SemaphoreBound ==
    /\ Cardinality(InsideFetch) <= ApiSemaphoreLimit
    /\ runner.pc # "idle" => sem + Cardinality(InsideFetch) = ApiSemaphoreLimit

\* every slot is taken while another fetch worker holds a subject and waits
C6_Witness ==
    /\ Cardinality({w \in ApiWorkers : api[w].pc = "fetching"}) = ApiSemaphoreLimit
    /\ \E w \in ApiWorkers : api[w].pc = "acquire"

\* C9: once two poll intervals have passed since the stop_event was set, every
\* fetch worker and every analysis worker has exited.
C9_WorkersExitWithinPoll ==
    (cancelAt >= 0 /\ clock >= cancelAt + 2) =>
        /\ \A w \in ApiWorkers : api[w].pc = "exited"
        /\ \A w \in AnalysisWorkers : ana[w].pc = "exited"

\* C11: the wrapper a reload creates has the schedule window and the cooldown of
\* the wrapper it replaces (the source text being the same before and after),
\* and so a second reload gives what the first one gave.
C11_ReloadKeepsSchedule ==
    \A w \in WrapperIds :
        wrappers[w].prev # 0 =>
            /\ wrappers[w].win = wrappers[wrappers[w].prev].win
            /\ wrappers[w].cool = wrappers[wrappers[w].prev].cool

\* C12: a get() that runs while another thread clears the cache, adds the key or
\* evicts the expired entry by a read of its own never fails: it returns a
\* stored value or reports not-found.
C12_GetNeverFails == ret.op # "get_keyerror"

Reads == {"get", "is_cached"}

\* the read whose result is in ret looked at an entry older than the TTL
ReadFoundExpired ==
    /\ ret.op \in Reads
    /\ lastAddT[ret.key] >= 0
    /\ ret.at - lastAddT[ret.key] > Ttl

C14_CrashProceedsToCooldown ==
    [][\A w \in WrapperIds :
           (wrappers[w].pc = "running" /\ wrappers[w].cool > 0)
               => wrappers'[w].pc \in {"running", "cooldown"}]_vars

\* a watched file of task A has changed and the watcher has not looked at it yet,
\* while the watcher runs and A's run is in progress or in its cooldown wait
TouchedWhileActive ==
    /\ watcher.pc \notin {"none", "done"}
    /\ \E f \in ReloadFiles("A") : mtime[f] > seen[f]
    /\ threads["A"] # 0
    /\ wrappers[threads["A"]].pc \in {"running", "cooldown"}

\* a wrapper created by a reload of task A is inside the entry point
FreshRun ==
    \E w \in WrapperIds :
        /\ wrappers[w].prev # 0
        /\ wrappers[w].name = "A"
        /\ wrappers[w].pc = "running"

\* C15: a modification of a watched file of a task, made while the watcher runs
\* and the task is running or in its cooldown wait, leads to a fresh run of the
\* task (the in-flight run having been stopped, the cooldown not waited out).
C15_TouchLeadsToFreshRun == TouchedWhileActive ~> FreshRun

\* C16: a stop_all that has begun returns, and a reload's join of the wrapper it
\* stopped ends, whether or not the task's entry point ever returns.
C16_StopCompletes ==
    /\ (main.pc = "stop_loop") ~> (main.pc \in {"returned", "raised"})
    /\ (watcher.pc = "join") ~> (watcher.pc # "join")

\* C17: at most one live task exists per name, and every live task is the one
\* the task table holds under its name (so stop_all reaches it), also after
\* add_thread was called with a name that is in the table already.
C17_OneLiveTaskPerName ==
    \A w \in WrapperIds : Alive(w) => threads[wrappers[w].name] = w

\* ------------------------------------------------------------------------
\* Claims about the TTL of an instance
\* ------------------------------------------------------------------------
PartSeconds(cfg) ==
    <<OrZero(cfg.days) * HoursPerDay * MinutesPerHour * SecondsPerMinute,
      OrZero(cfg.hours) * MinutesPerHour * SecondsPerMinute,
      OrZero(cfg.minutes) * SecondsPerMinute>>

SumOfParts(cfg) == PartSeconds(cfg)[1] + PartSeconds(cfg)[2] + PartSeconds(cfg)[3]

MaxOfParts(cfg) ==
    CHOOSE x \in {PartSeconds(cfg)[i] : i \in 1..3} :
        \A i \in 1..3 : PartSeconds(cfg)[i] <= x

NoneConfigured(cfg) == ~cfg.days.some /\ ~cfg.hours.some /\ ~cfg.minutes.some

ThirtyDays == DefaultTtlDays * HoursPerDay * MinutesPerHour * SecondsPerMinute

\* the age of the entry the last expiry test looked at
TestedAge == ret.at - lastAddT[ret.key]

\* the last expiry test found the entry not expired
Fresh == ret.hit

\* C18 as stated: the TTL of the expiry test is the maximum of the configured
\* day, hour and minute components, and 30 days when none is configured.
C18_TtlIsMaximum ==
    (ret.op \in {"is_cached", "models_is_expired"} /\ lastAddT[ret.key] >= 0) =>
        (Fresh <=> TestedAge <= (IF NoneConfigured(ttl_cfg) THEN ThirtyDays
                                 ELSE MaxOfParts(ttl_cfg)))

\* C18, amended: the TTL of the expiry test is the sum of the configured day,
\* hour and minute components. It is 30 days when none is configured, and in
\* services/core/cache_manager.py also when every configured component is zero.
C18_TtlIsSum ==
    /\ (ret.op = "is_cached" /\ lastAddT[ret.key] >= 0) =>
           (Fresh <=> TestedAge <= (IF SumOfParts(ttl_cfg) = 0 THEN ThirtyDays
                                    ELSE SumOfParts(ttl_cfg)))
    /\ (ret.op = "models_is_expired" /\ lastAddT[ret.key] >= 0) =>
           (Fresh <=> TestedAge <= (IF NoneConfigured(ttl_cfg) THEN ThirtyDays
                                    ELSE SumOfParts(ttl_cfg)))

\* two components are configured and an expiry test found an entry fresh that
\* is older than the larger of them
C18_Witness ==
    /\ ret.op = "is_cached" /\ Fresh /\ lastAddT[ret.key] >= 0
    /\ ttl_cfg.hours = Given(1) /\ ttl_cfg.minutes = Given(1)
    /\ TestedAge > MaxOfParts(ttl_cfg)

\* ------------------------------------------------------------------------
\* Claims about _load_cache
\* ------------------------------------------------------------------------
\* the file cannot be parsed, at the top level or in one of its rows
Corrupt(f) ==
    \/ f.kind \in {"empty", "partial"}
    \/ /\ f.kind = "foreign"
       /\ \E k \in Keys : f.data[k].Timestamp = BadStamp

\* C19: the Load of a file that is corrupt, at the top level or in any single
\* row, returns normally and leaves the cache without any entry from that file.
C19_CorruptLoadsEmpty ==
    (ret.op = "load_boot" /\ Corrupt(file)) => (boot = "up" /\ cache = EmptyMap)

\* C20: no I/O or parse error inside _load_cache or _save_cache reaches the
\* caller: whatever fails, the call returns normally and the process goes on.
C20_NoErrorPropagates == boot # "raised"

\* ------------------------------------------------------------------------
\* Claims about clear()
\* ------------------------------------------------------------------------
\* C21: once clear() has returned and every _save_cache that was in progress has
\* finished, the file holds no entry added before the clear, also when the
\* autosave loop saves at the same time.
C21_ClearPersists ==
    (ret.op = "clear" /\ \A t \in Thr : pc[t] = "idle") =>
        (file.kind = "complete" /\ \A k \in Keys : file.data[k] = NoRow)

\* ------------------------------------------------------------------------
\* Claims about tasks that share a parent
\* ------------------------------------------------------------------------
\* the watcher is not inside _handle_file_change
OutsideHandling == watcher.pc \in {"none", "top", "iter", "done"}

\* C22: when a task that declares a parent has been reloaded, every other task
\* that was registered with the same parent before it has been reloaded with it.
C22_ParentCascade ==
    OutsideHandling =>
        \A w \in WrapperIds : \A b \in WrapperIds :
            (/\ wrappers[w].prev # 0
             /\ wrappers[b].prev = 0
             /\ b < wrappers[w].prev
             /\ wrappers[b].name # wrappers[w].name
             /\ ParentOf(wrappers[b].name) = ParentOf(wrappers[w].name))
            => wrappers[threads[wrappers[b].name]].prev # 0

\* ------------------------------------------------------------------------
\* Claims about the end of a run
\* ------------------------------------------------------------------------
\* run_buy_scan saved the last_ticker_cache: the one call that does is the
\* clear() made when every subject of the run was counted
PositionCacheSaved == runner.cleared

\* C23: a run that was stopped early by the stop_event has saved the
\* position-tracking cache to disk by the time it returns.
C23_CancelFlushesPosition ==
    (runner.pc = "returned" /\ cancelAt >= 0) => PositionCacheSaved

\* a subject is queued, or a worker holds one it has not finished with
SubjectPending ==
    \/ \E i \in 1..Len(fetch_q) : fetch_q[i] # Sentinel
    \/ \E i \in 1..Len(result_q) : result_q[i].ticker # Sentinel
    \/ \E w \in ApiWorkers : api[w].item # NoItem
    \/ \E w \in AnalysisWorkers : ana[w].item # NoItem

FetchFailsForGood(w) ==
    /\ api[w].pc = "fetching" /\ api'[w].pc = "finally"
    /\ fetch_q' = fetch_q
    /\ result_q' # Append(result_q, [ticker |-> api[w].item.ticker, options |-> TRUE])

\* analysis worker w is done in this step with a failure marker
MarkerHandled(w) ==
    /\ ana[w].pc = "count_store" /\ ~ana[w].item.options
    /\ ana'[w].pc # "count_store"

\* C26: a fetch that fails with a non-retryable error pushes a failure marker
\* downstream and the worker moves on, and the subject of a failure marker is in
\* the ignore cache once the marker has been handled.
C26_FailureRecorded ==
    [][/\ \A w \in ApiWorkers :
            FetchFailsForGood(w) =>
                \/ api[w].item.ticker \in ignored'
                \/ result_q' = Append(result_q, [ticker |-> api[w].item.ticker,
                                                 options |-> FALSE])
       /\ \A w \in AnalysisWorkers :
            MarkerHandled(w) => ana[w].item.ticker \in ignored']_vars

\* the fetch and analysis workers that are running
LiveWorkers ==
    {w \in ApiWorkers : api[w].pc \notin {"new", "exited"}}
    \cup {w \in AnalysisWorkers : ana[w].pc \notin {"new", "exited"}}

\* the run has started its workers and has not yet pushed their sentinels
BeforeSentinels ==
    runner.pc \in {"feed", "poll", "poll_result", "sleep", "after_poll", "sentinels"}

\* C27: a fetch or an analysis that fails, whatever the error, ends no worker
\* and does not end the run: as long as nobody has cancelled and the run has
\* not pushed the sentinels, every worker is alive, and when such a run
\* returns, every subject none of whose fetches or analyses failed has been
\* analysed.
C27_FailureStaysLocal ==
    /\ (BeforeSentinels /\ ~stop_event) =>
           LiveWorkers = ApiWorkers \cup AnalysisWorkers
    /\ (runner.pc = "returned" /\ ~stop_event) =>
           \A i \in 1..Len(subjects) :
               subjects[i] \notin failures => analysed[subjects[i]] >= 1

\* the subjects of the listing that come after the recorded one
AfterLastSeen(ticker_keys, last_seen) ==
    SubSeq(ticker_keys, IndexOf(ticker_keys, last_seen) + 2, Len(ticker_keys))

\* C28: a run that finds the recorded subject in its listing starts with the
\* subject right after it; it starts again from the head of the listing only
\* when the recorded subject is the last of the listing or is not in it.
C28_ResumesAfterLastSeen ==
    resume # NoResume =>
        LET keys == resume.ticker_keys
            s == resume.last_seen
        IN  IF /\ \E i \in 1..Len(keys) : keys[i] = s
               /\ keys[Len(keys)] # s
            THEN resume.remaining_tickers = AfterLastSeen(keys, s)
            ELSE resume.remaining_tickers = keys

\* the cooldown wait of wrapper w ends in this step, nobody having stopped or
\* reloaded the task, at a time of day at which its window has closed
CooldownEndsAfterWindow(w) ==
    /\ wrappers[w].pc = "cooldown" /\ wrappers'[w].pc # "cooldown"
    /\ ~wrappers[w].stop /\ ~wrappers[w].reload
    /\ wrappers[w].win.some /\ tod >= wrappers[w].win.end

\* C29: a task whose cooldown wait ends after its window has closed goes back
\* to the top of its loop, where it waits for the window to open again: its
\* thread does not end, so no restart of the task is needed for the next run.
C29_ClosedWindowWaits ==
    [][\A w \in WrapperIds : CooldownEndsAfterWindow(w) => wrappers'[w].pc = "top"]_vars

\* the window of wrapper w is open at the present time of day
WindowOpen(w) ==
    wrappers[w].win.some =>
        (wrappers[w].win.start <= tod /\ tod < wrappers[w].win.end)

\* the cooldown wait of wrapper w ends in this step, nobody having stopped or
\* reloaded the task, while its window is open
CooldownEndsInWindow(w) ==
    /\ wrappers[w].pc = "cooldown" /\ wrappers'[w].pc # "cooldown"
    /\ ~wrappers[w].stop /\ ~wrappers[w].reload
    /\ WindowOpen(w)

\* C30: with a cooldown of c > 0 seconds, a run of the entry point that follows
\* another one starts no earlier than c seconds after that one returned, and a
\* cooldown wait that ends while the window is open, the task being neither
\* stopped nor reloaded, ends c seconds after the return and leaves the task
\* at the top of its loop with nothing left to wait for, so the next run
\* starts before any more time passes.
C30_CooldownBetweenRuns ==
    /\ [](\A w \in WrapperIds :
             (wrappers[w].pc = "running" /\ wrappers[w].returnedAt >= 0)
                 => wrappers[w].invokedAt >= wrappers[w].returnedAt + wrappers[w].cool)
    /\ [][\A w \in WrapperIds :
             CooldownEndsInWindow(w) =>
                 /\ tod >= wrappers[w].returnedAt + wrappers[w].cool
                 /\ wrappers'[w].pc = "top"
                 /\ ~wrappers'[w].stop
                 /\ wrappers'[w].win.some => tod' >= wrappers'[w].win.start]_vars

\* a second run of the entry point has started, exactly c seconds after the first
\* one returned
C30_Witness ==
    \E w \in WrapperIds :
        /\ wrappers[w].pc = "running" /\ wrappers[w].returnedAt >= 0
        /\ wrappers[w].cool > 0 /\ ~wrappers[w].stop
        /\ wrappers[w].invokedAt = wrappers[w].returnedAt + wrappers[w].cool

\* C31: while one file change is handled, no module is reloaded more than once,
\* whichever restarted tasks list it and whether or not it is also a registered
\* module.
C31_ReloadedOncePerEvent == \A m \in Modules : lastReload.event[m] <= 1

\* C32: the record wait_rate_limit removes when it returns from its wait is
\* never one whose reset time still lies ahead, also when another worker has
\* marked the provider again, with a later reset time, during the wait.
C32_WaitRemovesOnlyExpired == gate.caller = "wait" => ~gate.limited

\* time.sleep(1) of ThreadWrapper.run, in seconds: the poll interval of the waits
PollSeconds == 1

\* worker t is inside a sleep that has not reached its end
Sleeping(t) == pc[t] \in {"wait_sleep", "yf_backoff"} /\ now < reg[t].at

\* C33: once the cancellation signal has been set for more than one poll
\* interval, no worker is still inside a rate-limit wait or a retry back-off.
C33_WaitsEndOnCancel ==
    (stop_event /\ now > cancelAt + PollSeconds) => \A t \in Thr : ~Sleeping(t)

\* worker t runs the delete of is_rate_limited in this step and a record goes
DeletesRecord(t) ==
    /\ pc[t] = "rl_del" /\ pc'[t] # "rl_del"
    /\ cache[reg[t].key] # NoEntry /\ cache'[reg[t].key] = NoEntry

\* C34: is_rate_limited reads the record and deletes an expired one as one
\* atomic step: no call fails because another call deleted the record first,
\* and the record a call deletes is never one that was written after the call
\* read it and that is still before its reset time.
C34_ExpiryDeleteAtomic ==
    /\ [](ret.op # "rl_keyerror")
    /\ [][\A t \in Thr :
             DeletesRecord(t) => RateLimitedRead(cache, reg[t].key, now) = "expired"]_vars

\* fetch worker w leaves the wait for a valid session in this step
SessionRestored(w) == api[w].pc = "token_wait" /\ api'[w].pc # "token_wait"

\* C35: a fetch worker that met the expiry of the session goes on once the
\* session is valid again: it puts the subject back on the fetch queue and
\* stays alive for its next subject.
C35_ExpiryRequeues ==
    [][\A w \in ApiWorkers :
          SessionRestored(w) =>
              /\ fetch_q' = Append(fetch_q, api[w].item.ticker)
              /\ api'[w].pc = "finally"]_vars

\* the autosave loop's thread makes the copy with which a Save begins
AutosaveBegins == pc[Autosaver] = "save_copy" /\ pc'[Autosaver] = "save_open"

\* the row of key k in the file is the one of the entry in memory
Persisted(k) ==
    file.kind = "complete" /\ file.data[k] = Serializable(cache)[k]

Processed(t) == analysed[t] >= 1

C38_FinishedRunClears ==
    (runner.pc = "returned" /\ ~stop_event) =>
        (runner.cleared /\ resume.last_seen = NoTicker)

\* the process has just started on the file that the last Save wrote
LoadedSavedFile ==
    /\ ret.op = "load_boot" /\ boot = "up"
    /\ saved.done /\ file = CompleteFile(saved.data)

\* the age at the time of the load of the row saved for key k
SavedAge(k) == ret.at - FromIsoFormat(saved.data[k].Timestamp)

C39_Dropped ==
    /\ LoadedSavedFile
    /\ \E k \in Keys : saved.data[k] # NoRow /\ cache[k] = NoEntry

\* ------------------------------------------------------------------------
\* ApiWorker: a pool of threads that take requests from one queue and space
\* them with the shared _last_call
\*     now = time.time()
\*     elapsed = now - self._last_call
\*     if elapsed < self._min_interval:
\*         self._stop_event.wait(self._min_interval - elapsed)
\*     self._last_call = time.time()
\*     ... requests.request(...)
\* ------------------------------------------------------------------------
MaxCalls == 3       \* requests put on the queue in a run
MaxPoolTime == 6    \* the pool's clock stops here

PoolAt(t, at) == [apiw EXCEPT !.thr[t] = at]

\* call_api / call_api_async: self._queue.put(...)
CallApi ==
    /\ apiw.queue + Len(apiw.calls)
         + Cardinality({t \in PoolThreads : apiw.thr[t].pc # "top"}) < MaxCalls
    /\ apiw' = [apiw EXCEPT !.queue = @ + 1]
    /\ UNCHANGED <<cacheVars, rateVars, mgrVars, pipeVars>>

\* while not stop or not empty: item = self._queue.get(timeout=1)
WorkerGet(t) ==
    /\ apiw.thr[t].pc = "top"
    /\ apiw.queue > 0
    /\ apiw' = [apiw EXCEPT !.queue = @ - 1, !.thr[t].pc = "read"]
    /\ UNCHANGED <<cacheVars, rateVars, mgrVars, pipeVars>>

\* the loop test fails: the event is set and the queue is empty
WorkerExit(t) ==
    /\ apiw.thr[t].pc = "top"
    /\ apiw.stop_event /\ apiw.queue = 0
    /\ apiw' = PoolAt(t, [pc |-> "done", until |-> 0])
    /\ UNCHANGED <<cacheVars, rateVars, mgrVars, pipeVars>>

\* now = time.time(); elapsed = now - self._last_call; the test of elapsed
WorkerRead(t) ==
    /\ apiw.thr[t].pc = "read"
    /\ LET elapsed == apiw.time - apiw.last_call
       IN  apiw' = IF elapsed < MinInterval
                   THEN PoolAt(t, [pc |-> "wait",
                                   until |-> apiw.time + (MinInterval - elapsed)])
                   ELSE PoolAt(t, [pc |-> "stamp", until |-> 0])
    /\ UNCHANGED <<cacheVars, rateVars, mgrVars, pipeVars>>

\* self._stop_event.wait(...) returns: the time has passed, or the event is set
WorkerWaitEnd(t) ==
    /\ apiw.thr[t].pc = "wait"
    /\ apiw.time >= apiw.thr[t].until \/ apiw.stop_event
    /\ apiw' = PoolAt(t, [pc |-> "stamp", until |-> 0])
    /\ UNCHANGED <<cacheVars, rateVars, mgrVars, pipeVars>>

\* self._last_call = time.time(), and the request goes out
WorkerStamp(t) ==
    /\ apiw.thr[t].pc = "stamp"
    /\ apiw' = [apiw EXCEPT !.last_call = apiw.time,
                            !.calls = Append(@, apiw.time),
                            !.thr[t].pc = "http"]
    /\ UNCHANGED <<cacheVars, rateVars, mgrVars, pipeVars>>

\* the response is handed over, self._queue.task_done()
WorkerDone(t) ==
    /\ apiw.thr[t].pc = "http"
    /\ apiw' = PoolAt(t, PoolTop)
    /\ UNCHANGED <<cacheVars, rateVars, mgrVars, pipeVars>>

\* ApiWorker.stop, or the owner of the event sets it
PoolStop ==
    /\ ~apiw.stop_event
    /\ apiw' = [apiw EXCEPT !.stop_event = TRUE]
    /\ UNCHANGED <<cacheVars, rateVars, mgrVars, pipeVars>>

PoolTick ==
    /\ apiw.time < MaxPoolTime
    /\ apiw' = [apiw EXCEPT !.time = @ + 1]
    /\ UNCHANGED <<cacheVars, rateVars, mgrVars, pipeVars>>

PoolNext ==
    \/ CallApi
    \/ \E t \in PoolThreads : WorkerGet(t)
    \/ \E t \in PoolThreads : WorkerExit(t)
    \/ \E t \in PoolThreads : WorkerRead(t)
    \/ \E t \in PoolThreads : WorkerWaitEnd(t)
    \/ \E t \in PoolThreads : WorkerStamp(t)
    \/ \E t \in PoolThreads : WorkerDone(t)
    \/ PoolStop
    \/ PoolTick

SpecPool == PipeInit /\ [][PoolNext]_vars

\* C40: while the pool has not been stopped, any two requests that it has
\* issued started at least the minimum interval apart.
C40_CallsSpaced ==
    ~apiw.stop_event =>
        \A i, j \in 1..Len(apiw.calls) :
            i < j => apiw.calls[j] - apiw.calls[i] >= MinInterval

====
